---- MODULE Spec2Model ----
(***************************************************************************)
(* Model of the proxy acquisition and validation pipeline of ultidork:     *)
(* src/code/rapidproxyscan.py (ProxyTester, ProxyInfo, OptimizerIntegration*)
(* and ProxyScanManager).                                                  *)
(*                                                                         *)
(* The program runs on one asyncio event loop.  A task runs without        *)
(* interruption from one suspension point to the next, so every action of  *)
(* the manager below is one such segment.  The suspension points of the    *)
(* code are: session.get/response.text in fetch_proxy_lists, the HTTP      *)
(* request inside ProxyTester.test_proxy, Queue.get on an empty queue,     *)
(* Queue.join with unfinished items, asyncio.sleep, asyncio.gather and     *)
(* session.close.  Lock.acquire on a free asyncio.Lock, Queue.put on an    *)
(* unbounded queue, post_test_processing and export_results contain no     *)
(* suspension point; the lock is therefore free at every action boundary   *)
(* and is not a variable of the model.                                     *)
(***************************************************************************)
EXTENDS Integers, Sequences, FiniteSets, TLC

\* ------------------------------------------------------------------------
\* Bounds of the model
\* ------------------------------------------------------------------------
\* number of clock ticks the model lets pass after the start
MaxTicks == 1
\* number of passes of the scanning loop after the first one
MaxIter == 1

\* the exports of one run of export_results alone
MaxExports == 2

\* the categorization ticks of one run of ViewbotFormatter alone
MaxCatTicks == 4

\* ------------------------------------------------------------------------
\* Configuration (ProxyScanManager.__init__); the intervals are in ticks of
\* the model's clock
\* ------------------------------------------------------------------------
validation_rounds == 3
proxy_fetch_interval == 1
proxy_refresh_min_interval == 1
export_interval == 1
\* the largest number of records the registry is configured to keep
max_proxies_to_keep == 2
\* time.time() at program start: far larger than every interval, so that the
\* initial last_fetch_time = 0 and last_export_time = 0 are always overdue
StartTime == 10

None == "None"

\* ------------------------------------------------------------------------
\* ProxyTester
\* ------------------------------------------------------------------------
\* A JSON value as returned by response.json(): JSON null, an empty
\* container, a non-empty non-object (list, string, number) or an object.
JNone ==
  [kind |-> "null", status |-> None, anonymity_level |-> None,
   connecting_ip |-> None, client_ip_from_headers |-> None]

JEmpty == [JNone EXCEPT !.kind = "empty"]

JList == [JNone EXCEPT !.kind = "list"]

\* values json_data.get(key) can have: None (absent or null), "" or a string
IpValues == {None, "", "1.1.1.1", "2.2.2.2"}

\* anonymity_level: "missing" = key absent, "null" = JSON null (not a string)
AnonymityValues ==
  {"elite", "ELITE", "anonymous", "transparent", "weird", "missing", "null"}

StatusValues == {"success", "error", None}

JObjects ==
  [kind : {"object"}, status : StatusValues, anonymity_level : AnonymityValues,
   connecting_ip : IpValues, client_ip_from_headers : IpValues]

JsonValues == {JNone, JEmpty, JList} \cup JObjects

\* client-side round trip times in ms, one per speed class
Latencies == {100, 500, 900}

\* What the network gives back to one probe: a transport failure, or a 200
\* response with a JSON body after `latency` ms.
Responses ==
  [transport : {"client_error", "bad_status", "timeout", "not_json"},
   latency : {100}, json : {JNone}]
  \cup [transport : {"ok"}, latency : Latencies, json : JsonValues]

\* Python truthiness of a JSON value / of a string-or-None
JsonTruthy(j) == j.kind \in {"list", "object"}

StrTruthy(s) == s # None /\ s # ""

\* str.lower() on the values of AnonymityValues
Lower(s) == IF s = "ELITE" THEN "elite" ELSE s

determine_speed(latency_ms) ==
  IF latency_ms < 200 THEN "fast"
  ELSE IF latency_ms < 800 THEN "medium"
  ELSE "slow"

InitialResult ==
  [is_usable |-> FALSE, latency_ms |-> -1, security_level |-> "unknown",
   speed_rating |-> "unknown", raw_json_response |-> JNone, error |-> None]

\* "secure as hecc" unless the endpoint says otherwise
SecurityOf(anonymity) ==
  IF anonymity = "elite" THEN "secure as hecc"
  ELSE IF anonymity = "anonymous" THEN "medium"
  ELSE IF anonymity = "transparent" THEN "low"
  ELSE "unknown"

\* the leak check with the downgrade applied to "medium" only
LeakOverride_medium_only(security_level, connecting_ip, client_ip_from_headers) ==
  IF StrTruthy(client_ip_from_headers) /\ StrTruthy(connecting_ip)
     /\ client_ip_from_headers # connecting_ip
     /\ security_level = "medium"
  THEN "low (IP leaked)"
  ELSE security_level

\* the independent leak check of test_proxy
LeakOverride(security_level, connecting_ip, client_ip_from_headers) ==
  IF StrTruthy(client_ip_from_headers) /\ StrTruthy(connecting_ip)
     /\ client_ip_from_headers # connecting_ip
     /\ security_level # "low"
  THEN "low (IP leaked)"
  ELSE security_level

\* a check that takes every status but "error" for a success
reports_success_unless_error(json_data) == json_data.status # "error"

\* json_data.get("status") == "success"
reports_success(json_data) == json_data.status = "success"

test_proxy(resp) ==
  IF resp.transport = "timeout"
  THEN [InitialResult EXCEPT !.error = "timeout", !.speed_rating = "slow"]
  ELSE IF resp.transport \in {"client_error", "bad_status"}
  THEN [InitialResult EXCEPT !.error = "ClientError"]
  ELSE IF resp.transport = "not_json"
  THEN [InitialResult EXCEPT !.error = "JSONDecodeError"]
  ELSE
    LET json_data == resp.json
        r1 == [InitialResult EXCEPT !.latency_ms = resp.latency,
                                    !.raw_json_response = json_data]
    IN IF ~JsonTruthy(json_data) THEN r1
       \* json_data.get on a list or string raises, caught by `except Exception`
       ELSE IF json_data.kind # "object" THEN [r1 EXCEPT !.error = "AttributeError"]
       ELSE IF ~reports_success(json_data) THEN r1
       ELSE
         LET r2 == [r1 EXCEPT !.is_usable = TRUE]
         IN \* None.lower() raises after is_usable was set
            IF json_data.anonymity_level = "null"
            THEN [r2 EXCEPT !.error = "AttributeError"]
            ELSE
              LET anonymity ==
                    Lower(IF json_data.anonymity_level = "missing"
                          THEN "unknown" ELSE json_data.anonymity_level)
                  sec == SecurityOf(anonymity)
              IN [r2 EXCEPT
                    !.security_level =
                       LeakOverride(sec, json_data.connecting_ip,
                                    json_data.client_ip_from_headers),
                    !.speed_rating = determine_speed(resp.latency)]

\* ------------------------------------------------------------------------
\* ProxyInfo
\* ------------------------------------------------------------------------
\* The fields country, avg_response_time, description and raw_json_response
\* are written but never read by the code modelled here and are left out.
ProxyInfo_port_ignored(host, port) ==
  [host |-> host, port |-> 80, protocol |-> "http", reliability |-> 0,
   anonymity |-> "unknown", last_tested |-> 0, is_usable |-> FALSE,
   latency_ms |-> -1, security_level |-> "unknown", speed_rating |-> "unknown"]

ProxyInfo(host, port) ==
  [host |-> host, port |-> port, protocol |-> "http", reliability |-> 0,
   anonymity |-> "unknown", last_tested |-> 0, is_usable |-> FALSE,
   latency_ms |-> -1, security_level |-> "unknown", speed_rating |-> "unknown"]

\* the identity __hash__ and __eq__ compare
Identity(p) == <<p.host, p.port, p.protocol>>

\* update_from_test_result raises AttributeError at raw_json_response.get when
\* the stored JSON value is truthy but not an object; the assignments before
\* that line have already been made.
update_raises(test_result) ==
  /\ JsonTruthy(test_result.raw_json_response)
  /\ test_result.raw_json_response.kind # "object"

update_from_test_result(p, test_result) ==
  LET raw == test_result.raw_json_response
  IN [p EXCEPT
        !.is_usable = test_result.is_usable,
        !.latency_ms = test_result.latency_ms,
        !.security_level = test_result.security_level,
        !.speed_rating = test_result.speed_rating,
        !.anonymity =
           IF raw.kind = "object"
           THEN (IF raw.anonymity_level = "missing" THEN "unknown"
                 ELSE IF raw.anonymity_level = "null" THEN None
                 ELSE raw.anonymity_level)
           ELSE @]

\* ------------------------------------------------------------------------
\* OptimizerIntegration
\* ------------------------------------------------------------------------
Min(a, b) == IF a < b THEN a ELSE b

Max(a, b) == IF a > b THEN a ELSE b

\* post_test_processing without min and max
post_test_processing_unclamped(p, success, test_result, t) ==
  LET p1 == update_from_test_result(p, test_result)
  IN [p1 EXCEPT
        !.reliability = IF success THEN p1.reliability + 5 ELSE p1.reliability - 10,
        !.last_tested = t]

\* the record after post_test_processing returned normally at time t
post_test_processing(p, success, test_result, t) ==
  LET p1 == update_from_test_result(p, test_result)
  IN [p1 EXCEPT
        !.reliability = IF success THEN Min(100, p1.reliability + 5)
                        ELSE Max(0, p1.reliability - 10),
        !.last_tested = t]

\* ------------------------------------------------------------------------
\* Source contents and parse_proxy_list
\* ------------------------------------------------------------------------
\* A line of a source is a plain "host:port" line, a line holding one table
\* cell "<td>host:port</td>" (no match for the line pattern), or junk.
Line(kind, host, port_text) == [kind |-> kind, host |-> host, port_text |-> port_text]

\* int(match.group(2)) on the port texts used by the model
IntOfText(port_text) ==
  IF port_text = "80" THEN 80
  ELSE IF port_text = "080" THEN 80
  ELSE 81

InSeq(x, s) == \E i \in 1..Len(s) : s[i] = x

RECURSIVE TdPass(_, _, _)
\* the inner loop over soup.find_all('td'): every cell of the whole content,
\* appended unless the pair is already in the list
TdPass(acc, content, i) ==
  IF i > Len(content) THEN acc
  ELSE LET pair == <<content[i].host, IntOfText(content[i].port_text)>>
       IN IF content[i].kind = "td" /\ ~InSeq(pair, acc)
          THEN TdPass(Append(acc, pair), content, i + 1)
          ELSE TdPass(acc, content, i + 1)

RECURSIVE ParseLines(_, _, _)
ParseLines(acc, content, i) ==
  IF i > Len(content) THEN acc
  ELSE IF content[i].kind = "plain"
  THEN ParseLines(Append(acc, <<content[i].host, IntOfText(content[i].port_text)>>),
                  content, i + 1)
  ELSE ParseLines(TdPass(acc, content, 1), content, i + 1)

parse_proxy_list(content) == ParseLines(<<>>, content, 1)

\* ------------------------------------------------------------------------
\* Registry and test queue
\* ------------------------------------------------------------------------
\* f"{host}:{port}": the text of a host holds no colon, so the string
\* determines the pair and the pair the string
proxy_address(host, port) == <<host, port>>

\* the None the scanning loop puts on the queue to stop a worker
Sentinel == <<None, 0>>

\* The body of the loop over new_proxies in fetch_proxy_lists, run at time t
\* on the state st = [proxies, order, queue, unfinished]; order is the
\* insertion order of the dict.
RECURSIVE RegisterPairs(_, _, _, _)
RegisterPairs(st, pairs, i, t) ==
  IF i > Len(pairs) THEN st
  ELSE
    LET host == pairs[i][1]
        port == pairs[i][2]
        addr == proxy_address(host, port)
    IN IF addr \notin DOMAIN st.proxies
       THEN RegisterPairs(
              [proxies |-> st.proxies @@ (addr :> [ProxyInfo(host, port) EXCEPT !.last_tested = t]),
               order |-> Append(st.order, addr),
               queue |-> Append(st.queue, addr),
               unfinished |-> st.unfinished + 1],
              pairs, i + 1, t)
       ELSE RegisterPairs(st, pairs, i + 1, t)

proxy_sources == <<"source1", "source2">>

\* What one source gives to fetch_proxy_lists: the content of its list, or a
\* failure of the block inside `try`: an HTTP error status or a connection
\* error (aiohttp.ClientError), a timeout, an exception raised while parsing.
Answered(content) == [ok |-> TRUE, error |-> "none", content |-> content]

Failed(error) == [ok |-> FALSE, error |-> error, content |-> <<>>]

FetchErrors == {"http_error", "timeout", "parse_error"}

\* one source of fetch_proxy_lists: a failure is raised before the first
\* pair is registered and is logged by one of the two except clauses, else
\* the pairs of the content are registered
FetchOne(st, outcome, t) ==
  IF outcome.error = "http_error" THEN st
  ELSE IF outcome.error # "none" THEN st
  ELSE RegisterPairs(st, parse_proxy_list(outcome.content), 1, t)

\* the for loop with the try block around it: a failure ends the cycle
next_source_abort(i, outcome) ==
  IF outcome.ok /\ i < Len(proxy_sources) THEN i + 1 ELSE 1

\* the index of the source the for loop requests after source i gave
\* outcome; after the last source the next cycle starts with the first
next_source(i, outcome) ==
  IF i < Len(proxy_sources) THEN i + 1 ELSE 1

\* ------------------------------------------------------------------------
\* State of ProxyScanManager and of the tasks of the event loop
\* ------------------------------------------------------------------------
VARIABLES
  proxies,            \* self.proxies: address -> ProxyInfo
  addr_order,         \* insertion order of self.proxies
  verified_proxies,   \* self.verified_proxies
  proxy_test_queue,   \* items of self.proxy_test_queue, oldest first
  unfinished_tasks,   \* the queue's count of items put and not yet task_done
  force_fetch,        \* self.force_fetch
  single_run,         \* self.single_run
  validation_mode,    \* self.validation_mode
  proxy_test_workers, \* self.proxy_test_workers
  connection_limit,   \* self.connection_limit
  disk,               \* the export directory: "writable", "unwritable" (a
                      \* file cannot be opened in it) or "uncreatable"
                      \* (os.makedirs fails)
  session,            \* "none", "open" or "closed"
  executors,          \* "none", "up" or "shutdown" (both thread pools)
  mpc,                \* where the main task (run) is suspended
  src_i,              \* index of the source being fetched
  current_time,       \* local current_time of start_scanning_loop
  last_fetch_time,    \* local last_fetch_time
  last_export_time,   \* local last_export_time
  wpc,                \* per worker: "unstarted", "idle", "probing", "exited", "cancelled"
  wheld,              \* per worker: the record dequeued and not yet task_done
  now,                \* time.time()
  scans,              \* number of requeue scans done
  last_export,        \* addresses written by the most recent export
  export_count,       \* number of export files written
  forced_exports,     \* number of export_results(force=True) calls
  hist,               \* per address: is_usable of every test result applied
  post_count,         \* per address: number of completed post_test_processing
  seen_again,         \* fetch cycles alone: some source returned a pair that
                      \* was already registered or that it listed twice
  fetch_log,          \* fetch cycles alone: per source requested in the
                      \* current cycle, whether it answered and how many
                      \* records it added
  offered,            \* fetch cycles alone: the addresses of every pair
                      \* parsed from a source that answered
  cancel,             \* how the stop signal surfaced, "none" before it;
                      \* "error" when an exception left start_scanning_loop
  t_resp,             \* ProxyTester alone: the response of the probe
  t_result,           \* ProxyTester alone: the result returned
  epc,                \* export_results alone: the next file operation
  e_force,            \* export_results alone: the argument force
  e_info,             \* export_results alone: proxies_to_export_info, as
                      \* the addresses of its records
  e_written,          \* export_results alone: lines handed to write()
  verified_order,     \* export_results alone: the order in which the set
                      \* object self.verified_proxies is iterated
  e_lists,            \* export_results alone: per call that got as far as
                      \* exporting, the sorted list it exported
  txt_file,           \* the text file at its final path: None when it
                      \* does not exist, else the lines on disk
  csv_file,           \* the CSV file at its final path, likewise
  parse_content,      \* parse_proxy_list alone: the argument content
  parse_result,       \* parse_proxy_list alone: the list returned
  formatter,          \* ViewbotFormatter alone: the attributes of the object
  cat,                \* ViewbotFormatter alone: whether its specification
                      \* runs, per address whether each finished tick
                      \* categorized it, and the addresses categorized in
                      \* the current tick
  vb_out,             \* the lists exported by the calls of
                      \* export_for_viewbot since the last categorization
  sup_out,            \* the list exported by the last export_for_supreme
  endpoint_manager,   \* CustomEndpointManager alone: endpoint_stats, the
                      \* calls of update_endpoint_health so far and the
                      \* last selection made since the last of them
  dns_cache,          \* EnhancedDNSCache alone: the cache, the tasks that
                      \* hold its lock (none or one) and the position of
                      \* each task in resolve
  polling             \* the polling loops of CaptchaSolver.solve and
                      \* capture_url alone

fetch_ghosts == <<seen_again, fetch_log, offered>>

registry_vars ==
  <<proxies, addr_order, proxy_test_queue, unfinished_tasks, hist, post_count,
    fetch_ghosts>>

config_vars ==
  <<single_run, validation_mode, proxy_test_workers, connection_limit, disk>>

main_vars ==
  <<verified_proxies, force_fetch, session, executors, mpc, src_i, current_time,
    last_fetch_time, last_export_time, scans, last_export, export_count,
    forced_exports, cancel>>

worker_vars == <<wpc, wheld>>

tester_vars == <<t_resp, t_result>>

export_vars ==
  <<epc, e_force, e_info, e_written, txt_file, csv_file, verified_order, e_lists>>

parse_vars == <<parse_content, parse_result>>

formatter_vars == <<formatter, cat, vb_out, sup_out>>

upgrade_vars == <<endpoint_manager, dns_cache, polling>>

\* the variables of the specifications of one function alone
alone_vars ==
  <<tester_vars, export_vars, parse_vars, formatter_vars, upgrade_vars>>

vars == <<registry_vars, config_vars, main_vars, worker_vars, now, alone_vars>>

Workers == 1..proxy_test_workers

ValidationModes == {"any", "majority", "all"}

Host1 == "10.0.0.1"

Host2 == "10.0.0.2"

Addr1 == proxy_address(Host1, 80)

Addr2 == proxy_address(Host2, 80)

\* ------------------------------------------------------------------------
\* ViewbotFormatter (rapidproxyscanupgrades.py)
\* ------------------------------------------------------------------------
\* the addresses categorized by the model
CatAddrs == {Addr1, Addr2}

\* the reliabilities of the dicts categorized by the model: silver and
\* platinum, on the two sides of the thresholds of the fast track and of
\* the top tiers
CatReliabilities == (Addr1 :> {80, 100}) @@ (Addr2 :> {100})

\* the anonymity and the response time of the proxy at each address
CatAnonymity == (Addr1 :> "high") @@ (Addr2 :> "medium")

CatResponseTime == (Addr1 :> 100) @@ (Addr2 :> 700)

\* a proxy dict as its caller hands it to categorize_proxy: the keys
\* persistent and fast_track are absent
proxy_dict(address, reliability) ==
  [host |-> address[1], port |-> address[2], protocol |-> "http",
   reliability |-> reliability, anonymity |-> CatAnonymity[address],
   avg_response_time |-> CatResponseTime[address],
   persistent |-> None, fast_track |-> None]

\* f"{proxy['host']}:{proxy['port']}"
address_of(proxy) == proxy_address(proxy.host, proxy.port)

\* self.proxy_history.get(address, {}) with the defaults of its readers
NoHistory ==
  [times_seen |-> 0, reliability |-> 0, response_time |-> 1000,
   anonymity |-> "unknown"]

\* the attributes after ViewbotFormatter.__init__
FormatterNew ==
  [speed_categories |-> [ultra |-> <<>>, fast |-> <<>>, medium |-> <<>>, slow |-> <<>>],
   reliability_categories |->
     [platinum |-> <<>>, gold |-> <<>>, silver |-> <<>>, bronze |-> <<>>],
   stealth_categories |-> [elite |-> <<>>, anonymous |-> <<>>, transparent |-> <<>>],
   persistent_proxies |-> {},
   persistence_counter |-> [a \in CatAddrs |-> 0],
   proxy_history |-> [a \in CatAddrs |-> NoHistory],
   fast_track_proxies |-> {}]

speed_category(response_time) ==
  IF response_time < 200 THEN "ultra"
  ELSE IF response_time < 500 THEN "fast"
  ELSE IF response_time < 1000 THEN "medium"
  ELSE "slow"

reliability_category(reliability) ==
  IF reliability >= 100 THEN "platinum"
  ELSE IF reliability >= 90 THEN "gold"
  ELSE IF reliability >= 75 THEN "silver"
  ELSE "bronze"

stealth_category(anonymity) ==
  IF anonymity = "high" THEN "elite"
  ELSE IF anonymity = "medium" THEN "anonymous"
  ELSE "transparent"

\* a counter that marks a proxy persistent one call early
is_persistent_after_two(times_seen) == times_seen >= 2

\* self.persistence_counter[address] >= 3
is_persistent(times_seen) == times_seen >= 3

\* reliability >= 85, the second condition of the fast track
is_reliable(reliability) == reliability >= 85

\* categorize_proxy(proxy): the formatter after the call
categorize_proxy(fm, proxy) ==
  LET address == address_of(proxy)
      times_seen == fm.persistence_counter[address] + 1
  IN [fm EXCEPT
        !.speed_categories[speed_category(proxy.avg_response_time)] = Append(@, proxy),
        !.reliability_categories[reliability_category(proxy.reliability)] =
           Append(@, proxy),
        !.stealth_categories[stealth_category(proxy.anonymity)] = Append(@, proxy),
        !.persistence_counter[address] = times_seen,
        !.persistent_proxies =
           IF is_persistent(times_seen) THEN @ \cup {address} ELSE @,
        !.fast_track_proxies =
           IF is_persistent(times_seen) /\ is_reliable(proxy.reliability)
           THEN @ \cup {address} ELSE @,
        !.proxy_history[address] =
           [times_seen |-> times_seen, reliability |-> proxy.reliability,
            response_time |-> proxy.avg_response_time,
            anonymity |-> proxy.anonymity]]

\* a filter that lets every dict through once only
matches_filters_unexported(proxy) ==
  /\ proxy.reliability >= 75
  /\ proxy.avg_response_time <= 1000
  /\ proxy.anonymity \in {"high", "medium"}
  /\ proxy.persistent = None

\* matches_filters(proxy) under the default filters
matches_filters(proxy) ==
  /\ proxy.reliability >= 75
  /\ proxy.avg_response_time <= 1000
  /\ proxy.anonymity \in {"high", "medium"}

PyBool(b) == IF b THEN "True" ELSE "False"

\* the assignments of export_for_viewbot to a dict of the first loop
\* (ultra, fast) and of the second loop (medium)
mark_fast(fm, proxy) ==
  IF address_of(proxy) \in fm.persistent_proxies /\ matches_filters(proxy)
  THEN [proxy EXCEPT !.persistent = "True",
                     !.fast_track = PyBool(address_of(proxy) \in fm.fast_track_proxies)]
  ELSE proxy

mark_medium(fm, proxy) ==
  IF address_of(proxy) \notin fm.persistent_proxies /\ matches_filters(proxy)
  THEN [proxy EXCEPT !.persistent = "False", !.fast_track = "False"]
  ELSE proxy

\* the formatter after export_for_viewbot: the dicts it appended carry the
\* keys persistent and fast_track
viewbot_marked(fm) ==
  [fm EXCEPT
     !.speed_categories.ultra = [i \in 1..Len(@) |-> mark_fast(fm, @[i])],
     !.speed_categories.fast = [i \in 1..Len(@) |-> mark_fast(fm, @[i])],
     !.speed_categories.medium = [i \in 1..Len(@) |-> mark_medium(fm, @[i])]]

\* matching_proxies before the sort
matching_proxies(fm) ==
  LET fast_ok(proxy) ==
        address_of(proxy) \in fm.persistent_proxies /\ matches_filters(proxy)
      medium_ok(proxy) ==
        address_of(proxy) \notin fm.persistent_proxies /\ matches_filters(proxy)
      first == SelectSeq(fm.speed_categories.ultra \o fm.speed_categories.fast, fast_ok)
      second == SelectSeq(fm.speed_categories.medium, medium_ok)
  IN [i \in 1..Len(first) |-> mark_fast(fm, first[i])]
     \o [i \in 1..Len(second) |-> mark_medium(fm, second[i])]

\* score_proxy(proxy) times 100 * 1000 * 10 * 10, an integer
score_proxy(proxy) ==
  proxy.reliability
  * (1000 - Min(1000, proxy.avg_response_time))
  * (IF proxy.anonymity = "high" THEN 15
     ELSE IF proxy.anonymity = "medium" THEN 12 ELSE 10)
  * (IF proxy.persistent = "True" THEN 15 ELSE 10)

\* list.sort(key=..., reverse=True) on <<key, item>> pairs: descending keys,
\* items of equal keys in their order before the sort
insert_desc(sorted, x) ==
  LET k == Cardinality({i \in 1..Len(sorted) : sorted[i].key >= x.key})
  IN SubSeq(sorted, 1, k) \o <<x>> \o SubSeq(sorted, k + 1, Len(sorted))

RECURSIVE sort_desc(_)
sort_desc(s) ==
  IF s = <<>> THEN <<>>
  ELSE insert_desc(sort_desc(SubSeq(s, 1, Len(s) - 1)), s[Len(s)])

Items(s) == [i \in 1..Len(s) |-> s[i].item]

\* export_for_viewbot(filename): the proxies written, in the order written
export_for_viewbot(fm) ==
  LET m == matching_proxies(fm)
  IN Items(sort_desc([i \in 1..Len(m) |-> [key |-> score_proxy(m[i]), item |-> m[i]]]))

\* the second loop of export_for_supreme over the persistent addresses in
\* the order of the set's iteration
RECURSIVE supreme_persistent(_, _, _, _)
supreme_persistent(fm, supreme_proxies, order, i) ==
  IF i > Len(order) THEN supreme_proxies
  ELSE LET address == order[i]
           history == fm.proxy_history[address]
           hosts == {supreme_proxies[j].host : j \in 1..Len(supreme_proxies)}
       IN IF address[1] \in hosts
          THEN supreme_persistent(fm, supreme_proxies, order, i + 1)
          ELSE IF history.reliability >= 80
          THEN supreme_persistent(fm,
                 Append(supreme_proxies,
                   [host |-> address[1], port |-> address[2], protocol |-> "https",
                    reliability |-> history.reliability,
                    anonymity |-> history.anonymity,
                    avg_response_time |-> history.response_time,
                    persistent |-> "True", fast_track |-> None]),
                 order, i + 1)
          ELSE supreme_persistent(fm, supreme_proxies, order, i + 1)

\* export_for_supreme(filename): the proxies written, in the order written
export_for_supreme(fm, order) ==
  LET elite(proxy) == proxy.anonymity = "high"
      first == SelectSeq(fm.reliability_categories.platinum
                         \o fm.reliability_categories.gold, elite)
      all == supreme_persistent(fm, first, order, 1)
  IN Items(sort_desc([i \in 1..Len(all) |->
             [key |-> all[i].reliability * 10000 - all[i].avg_response_time,
              item |-> all[i]]]))

\* what a source can return to the scanner in the full model
ManagerOutcomes ==
  {Failed("timeout"),
   Answered(<<Line("plain", Host1, "80")>>),
   Answered(<<Line("plain", Host1, "080"), Line("plain", Host2, "80")>>)}

\* what a probe can meet in the full model: an elite proxy, a timeout and a
\* 200 response whose JSON body is a list
OkElite ==
  [transport |-> "ok", latency |-> 100,
   json |-> [kind |-> "object", status |-> "success", anonymity_level |-> "elite",
             connecting_ip |-> "1.1.1.1", client_ip_from_headers |-> None]]

TimedOut == [transport |-> "timeout", latency |-> 100, json |-> JNone]

OkList == [transport |-> "ok", latency |-> 100, json |-> JList]

ManagerResponses == {OkElite, TimedOut, OkList}

\* t_result before test_proxy has returned
Pending == [InitialResult EXCEPT !.error = "pending"]

TesterIdle == [t_resp |-> TimedOut, t_result |-> Pending]

\* the state after ProxyScanManager.__init__
ManagerInit ==
  /\ proxies = <<>>
  /\ addr_order = <<>>
  /\ verified_proxies = {}
  /\ proxy_test_queue = <<>>
  /\ unfinished_tasks = 0
  /\ session = "none"
  /\ executors = "none"
  /\ mpc = "start"
  /\ src_i = 0
  /\ current_time = 0
  /\ last_fetch_time = 0
  /\ last_export_time = 0
  /\ wpc = [w \in Workers |-> "unstarted"]
  /\ wheld = [w \in Workers |-> Sentinel]
  /\ now = StartTime
  /\ scans = 0
  /\ last_export = {}
  /\ export_count = 0
  /\ forced_exports = 0
  /\ hist = <<>>
  /\ post_count = <<>>
  /\ seen_again = FALSE
  /\ fetch_log = <<>>
  /\ offered = {}
  /\ cancel = "none"

\* export_results and parse_proxy_list not called
ExportIdle ==
  /\ epc = "idle"
  /\ e_force = FALSE
  /\ e_info = <<>>
  /\ e_written = 0
  /\ txt_file = None
  /\ csv_file = None
  /\ verified_order = <<>>
  /\ e_lists = <<>>

ParseIdle ==
  /\ parse_content = <<>>
  /\ parse_result = None

\* ------------------------------------------------------------------------
\* CustomEndpointManager (rapidproxyscanupgrades.py)
\* ------------------------------------------------------------------------
standard_endpoints ==
  <<"http://httpbin.org/ip", "https://api.ipify.org/?format=json",
    "http://ip-api.com/json/", "https://www.cloudflare.com/cdn-cgi/trace">>

\* create_endpoint_selection_map(): region -> endpoints, the standard
\* endpoints appended to every region
create_endpoint_selection_map ==
  [na |-> <<"https://cloudfront-na.example.com/echo",
            "https://na-ping.httpbin.org/ip",
            "http://cdn-na.iptest.net/ping">> \o standard_endpoints,
   eu |-> <<"https://cloudfront-eu.example.com/echo",
            "https://eu-ping.httpbin.org/ip",
            "http://cdn-eu.iptest.net/ping">> \o standard_endpoints,
   as |-> <<"https://cloudfront-ap.example.com/echo",
            "https://ap-ping.httpbin.org/ip",
            "http://cdn-ap.iptest.net/ping">> \o standard_endpoints,
   sa |-> standard_endpoints,
   oc |-> standard_endpoints,
   af |-> standard_endpoints]

country_to_region ==
  ("us" :> "na") @@ ("ca" :> "na") @@ ("mx" :> "na")
  @@ ("gb" :> "eu") @@ ("de" :> "eu") @@ ("fr" :> "eu") @@ ("it" :> "eu")
  @@ ("es" :> "eu") @@ ("nl" :> "eu")
  @@ ("cn" :> "as") @@ ("jp" :> "as") @@ ("kr" :> "as") @@ ("in" :> "as")
  @@ ("sg" :> "as")
  @@ ("br" :> "sa") @@ ("ar" :> "sa") @@ ("co" :> "sa") @@ ("cl" :> "sa")
  @@ ("au" :> "oc") @@ ("nz" :> "oc")
  @@ ("za" :> "af") @@ ("ng" :> "af") @@ ("eg" :> "af")

\* the values of proxy_info.get("country") of the model: the key absent,
\* empty, a country in upper case, one of a region without endpoints of
\* its own, and one the map does not know
Countries == {None, "", "US", "br", "zz"}

\* str.lower() on the countries of the model
lower(country) == IF country = "US" THEN "us" ELSE country

\* the endpoints of the regions the countries of the model map to
Endpoints ==
  {create_endpoint_selection_map.na[i] :
     i \in 1..Len(create_endpoint_selection_map.na)}

\* the response times handed to update_endpoint_health; their running
\* averages stay whole numbers for four samples
ResponseTimes == {1600, 4800}

\* defaultdict(lambda: {"success": 0, "failure": 0, "avg_time": 0})
NoStats == [success |-> 0, failure |-> 0, avg_time |-> 0]

NoSelection == [country |-> None, endpoint |-> None]

\* the attributes after CustomEndpointManager.__init__
EndpointManagerNew ==
  [endpoint_stats |-> [e \in Endpoints |-> NoStats],
   updates |-> 0,
   selected |-> NoSelection]

\* update_endpoint_health(endpoint, success, response_time): endpoint_stats
\* after the call
update_endpoint_health(endpoint_stats, endpoint, success, response_time) ==
  LET stats == endpoint_stats[endpoint]
  IN [endpoint_stats EXCEPT ![endpoint] =
        IF success
        THEN [stats EXCEPT
                !.success = @ + 1,
                !.avg_time = IF @ = 0 THEN response_time
                             ELSE (@ * 19 + response_time) \div 20]
        ELSE [stats EXCEPT !.failure = @ + 1]]

\* the score of an endpoint times 3,000,000, an integer:
\* (success_rate * 0.7) + (time_score * 0.3), 0.5 without data
endpoint_score(stats) ==
  LET total == stats.success + stats.failure
  IN IF total = 0 THEN 1500000
     ELSE (2100000 * stats.success) \div total
          + 180 * (IF stats.avg_time > 0
                   THEN 5000 - Min(5000, stats.avg_time) ELSE 2500)

\* a selection among the four best endpoints
top_four_endpoints(scored_endpoints) ==
  Items(SubSeq(scored_endpoints, 1, Min(4, Len(scored_endpoints))))

\* [e[0] for e in scored_endpoints[:3]] if len(scored_endpoints) >= 3
\* else [e[0] for e in scored_endpoints]
top_endpoints(scored_endpoints) ==
  IF Len(scored_endpoints) >= 3
  THEN Items(SubSeq(scored_endpoints, 1, 3))
  ELSE Items(scored_endpoints)

\* select_optimal_endpoint(proxy_info): the endpoints random.choice may
\* return
select_optimal_endpoint(endpoint_stats, country) ==
  IF country \in {None, ""}
  THEN {"http://httpbin.org/ip", "https://api.ipify.org/?format=json"}
  ELSE LET c == lower(country)
           region == IF c \in DOMAIN country_to_region
                     THEN country_to_region[c] ELSE "na"
           region_map == create_endpoint_selection_map
           endpoints == IF region \in DOMAIN region_map
                        THEN region_map[region] ELSE region_map["na"]
           scored_endpoints ==
             sort_desc([i \in 1..Len(endpoints) |->
                          [key |-> endpoint_score(endpoint_stats[endpoints[i]]),
                           item |-> endpoints[i]]])
           top == top_endpoints(scored_endpoints)
       IN {top[i] : i \in 1..Len(top)}

\* ------------------------------------------------------------------------
\* EnhancedDNSCache (rapidproxyscanupgrades.py)
\* ------------------------------------------------------------------------
\* the hostnames resolved in the model and what the resolver answers for
\* them
Hostnames == {"httpbin.org", "example.com"}

ResolverIp == ("httpbin.org" :> "3.3.3.3") @@ ("example.com" :> "4.4.4.4")

\* the tasks that call resolve
DnsTasks == {1, 2}

\* EnhancedDNSCache(ttl=2): the lifetime of a cache entry in clock ticks
ttl == 2

\* self.cache.get(hostname) of a hostname that is not cached
NoEntry == [ip |-> None, timestamp |-> 0]

DnsTaskIdle == [pc |-> "idle", hostname |-> None, result |-> None]

\* the attributes after EnhancedDNSCache.__init__, no task in resolve
DnsCacheNew ==
  [cache |-> [h \in Hostnames |-> NoEntry],
   lock |-> {},
   task |-> [t \in DnsTasks |-> DnsTaskIdle]]

\* the first block of resolve: the entry is cached and younger than ttl
cache_hit(cache, hostname, time) ==
  /\ cache[hostname] # NoEntry
  /\ time - cache[hostname].timestamp < ttl

\* a resolve that calls the resolver inside its first `async with`
lock_held_by_caller(t) == {t}

\* the holders of self.lock while a task awaits run_in_executor: the first
\* `async with self.lock` has been left
lock_while_resolving(t) == {}

\* ------------------------------------------------------------------------
\* the polling loops of the collaborators
\* ------------------------------------------------------------------------
\* no CaptchaSolver constructed, capture_url not called
PollingIdle ==
  [solver |-> [pc |-> "unbuilt", api_key |-> FALSE, max_retries |-> 0,
               attempt |-> 0, result |-> None],
   capture |-> [pc |-> "uncalled", status |-> None]]

\* the answers of res.php to one poll of CaptchaSolver.solve: the token,
\* "not ready yet", or a failure of the request or of its decoding
SolverAnswers == {"ready", "not_ready", "raised"}

\* status.name of the answers of get_capture_status
CaptureStatuses == {"QUEUED", "ONGOING", "DONE", "UNKNOWN"}

\* the body of `for attempt in range(self.max_retries)` for one answer: the
\* solver after the poll
solver_poll(solver, answer) ==
  IF answer = "ready"
  THEN [solver EXCEPT !.pc = "returned", !.attempt = @ + 1, !.result = "token"]
  ELSE IF answer = "raised"
  THEN [solver EXCEPT !.pc = "returned", !.attempt = @ + 1, !.result = None]
  ELSE [solver EXCEPT
          !.pc = IF solver.attempt + 1 < solver.max_retries
                 THEN "polling" ELSE "returned",
          !.attempt = @ + 1]

\* the body of `while True` of capture_url for one status: the position
\* after it
capture_poll(status) ==
  IF status = "DONE" THEN "returned"
  ELSE IF status = "UNKNOWN" THEN "raised"
  ELSE "polling"

\* none of the three in use
UpgradeIdle ==
  /\ endpoint_manager = EndpointManagerNew
  /\ dns_cache = DnsCacheNew
  /\ polling = PollingIdle

\* no ViewbotFormatter in use
FormatterIdle ==
  /\ formatter = FormatterNew
  /\ cat = [running |-> FALSE, seen |-> [a \in CatAddrs |-> <<>>], now |-> {}]
  /\ vb_out = <<>>
  /\ sup_out = <<>>

\* the scanner as its callers in the repository configure it (majority of 3
\* rounds), in single-run or continuous mode
InitOn(mode, workers, limit, disks) ==
  /\ proxy_test_workers = workers
  /\ connection_limit = limit
  /\ ManagerInit
  /\ force_fetch \in BOOLEAN
  /\ single_run \in BOOLEAN
  /\ validation_mode = mode
  /\ t_resp = TesterIdle.t_resp
  /\ t_result = TesterIdle.t_result
  /\ ExportIdle
  /\ ParseIdle
  /\ FormatterIdle
  /\ UpgradeIdle
  /\ disk \in disks

\* the export directory can be created and written
InitConfig(mode, workers, limit) == InitOn(mode, workers, limit, {"writable"})

\* one worker, and a connection limit of the same value
InitMode(mode) == InitConfig(mode, 1, 1)

Init == InitMode("majority")

InitAll == InitMode("all")

InitAny == InitMode("any")

\* ------------------------------------------------------------------------
\* Pieces of start_scanning_loop and export_results
\* ------------------------------------------------------------------------
CurSt ==
  [proxies |-> proxies, order |-> addr_order, queue |-> proxy_test_queue,
   unfinished |-> unfinished_tasks]

Extend(f, D, default) == [a \in D |-> IF a \in DOMAIN f THEN f[a] ELSE default]

SetRegistry(st) ==
  /\ proxies' = st.proxies
  /\ addr_order' = st.order
  /\ proxy_test_queue' = st.queue
  /\ unfinished_tasks' = st.unfinished
  /\ hist' = Extend(hist, DOMAIN st.proxies, <<>>)
  /\ post_count' = Extend(post_count, DOMAIN st.proxies, 0)

\* the addresses of the pairs a source hands to the registration loop
Offers(outcome) ==
  IF ~outcome.ok THEN {}
  ELSE LET pairs == parse_proxy_list(outcome.content)
       IN {proxy_address(pairs[i][1], pairs[i][2]) : i \in 1..Len(pairs)}

\* some pair of the outcome is already registered, or occurs twice in it
Repeats(st, outcome) ==
  /\ outcome.ok
  /\ LET pairs == parse_proxy_list(outcome.content)
     IN \E i \in 1..Len(pairs) :
          \/ proxy_address(pairs[i][1], pairs[i][2]) \in DOMAIN st.proxies
          \/ \E j \in 1..Len(pairs) : j # i /\ pairs[j] = pairs[i]

\* the condition of the requeue scan without its interval test
needs_retest_always(p, ct) == TRUE

\* the condition of the requeue scan without its usability test
needs_retest_gated(p, ct) == ct - p.last_tested >= proxy_refresh_min_interval

\* the condition under which the requeue scan queues record p at current_time ct
needs_retest(p, ct) ==
  (ct - p.last_tested >= proxy_refresh_min_interval) \/ ~p.is_usable

\* the requeue scan: the loop over list(self.proxies.items()) under the lock
RECURSIVE RequeueScan(_, _, _)
RequeueScan(st, i, ct) ==
  IF i > Len(st.order) THEN st
  ELSE
    LET addr == st.order[i]
        p == st.proxies[addr]
    IN IF needs_retest(p, ct)
       THEN RequeueScan(
              [st EXCEPT !.proxies[addr] = [p EXCEPT !.last_tested = ct, !.is_usable = FALSE],
                         !.queue = Append(@, addr),
                         !.unfinished = @ + 1],
              i + 1, ct)
       ELSE RequeueScan(st, i + 1, ct)

\* proxies_to_export_info of export_results
export_list(px, verified) ==
  {addr \in verified : addr \in DOMAIN px /\ px[addr].is_usable}

\* the loop ending without a None for the workers
Sentinels_none == <<>>

\* one None per worker
Sentinels == [i \in Workers |-> Sentinel]

\* start_scanning_loop from the requeue scan to the next suspension point,
\* on the registry st left by this pass's fetch (if any)
LoopTail(st, ct, lft, ff) ==
  LET rq == RequeueScan(st, 1, ct)
      due == (ct - last_export_time >= export_interval) /\ verified_proxies # {}
      list1 == export_list(rq.proxies, verified_proxies)
      \* export_results() gets past its early return: os.makedirs raises
      \* out of the loop, or the files are written, or open() fails and
      \* the IOError is logged
      raised1 == due /\ list1 # {} /\ disk = "uncreatable"
      wrote1 == due /\ list1 # {} /\ disk = "writable"
      exported1 == due /\ ~raised1
      ver1 == IF exported1 THEN {} ELSE verified_proxies
      \* Queue.join returns at once when nothing is unfinished
      stop_now == ~raised1 /\ single_run /\ rq.unfinished = 0
      raised2 == stop_now /\ disk = "uncreatable"
      wrote2 == stop_now /\ disk = "writable"
      raised == raised1 \/ raised2
      rq2 == IF stop_now /\ ~raised2
             THEN [rq EXCEPT !.queue = @ \o Sentinels,
                             !.unfinished = @ + proxy_test_workers]
             ELSE rq
  IN /\ SetRegistry(rq2)
     /\ verified_proxies' = ver1
     /\ last_export_time' = IF exported1 THEN ct ELSE last_export_time
     /\ last_export' = IF wrote2 THEN export_list(rq.proxies, ver1)
                       ELSE IF wrote1 THEN list1 ELSE last_export
     /\ export_count' = export_count + (IF wrote1 THEN 1 ELSE 0)
                                     + (IF wrote2 THEN 1 ELSE 0)
     /\ forced_exports' = forced_exports + (IF stop_now THEN 1 ELSE 0)
     /\ mpc' = IF raised THEN "cleanup"
               ELSE IF stop_now THEN "gather"
               ELSE IF single_run THEN "join" ELSE "sleep"
     /\ cancel' = IF raised THEN "error" ELSE cancel
     /\ current_time' = ct
     /\ last_fetch_time' = lft
     /\ force_fetch' = ff
     /\ scans' = scans + 1
     /\ src_i' = 0
     /\ UNCHANGED <<session, executors>>

\* the top of the while loop: fetch when due, else go on to the requeue scan
LoopTop(st) ==
  IF (now - last_fetch_time >= proxy_fetch_interval) \/ force_fetch
  THEN /\ SetRegistry(st)
       /\ mpc' = "loop_fetch"
       /\ src_i' = 1
       /\ current_time' = now
       /\ UNCHANGED <<verified_proxies, force_fetch, session, executors,
                      last_fetch_time, last_export_time, scans, last_export,
                      export_count, forced_exports, cancel>>
  ELSE LoopTail(st, now, last_fetch_time, force_fetch)

\* ------------------------------------------------------------------------
\* The main task: run, initialize, start_scanning_loop, cleanup
\* ------------------------------------------------------------------------
\* run up to the first request of initialize's fetch_proxy_lists
Initialize ==
  /\ mpc = "start"
  /\ session' = "open"
  /\ executors' = "up"
  /\ mpc' = "init_fetch"
  /\ src_i' = 1
  /\ UNCHANGED <<registry_vars, config_vars, worker_vars, now, alone_vars,
                 verified_proxies, force_fetch, current_time, last_fetch_time,
                 last_export_time, scans, last_export, export_count,
                 forced_exports, cancel>>

\* a source of the initial fetch answers; after the last one initialize
\* returns, start_scanning_loop creates the workers and enters its loop
InitFetchSource ==
  /\ mpc = "init_fetch"
  /\ \E outcome \in ManagerOutcomes :
       LET st == FetchOne(CurSt, outcome, now)
       IN /\ UNCHANGED fetch_ghosts
          /\ IF src_i < Len(proxy_sources)
               THEN /\ SetRegistry(st)
                    /\ src_i' = src_i + 1
                    /\ UNCHANGED <<worker_vars, verified_proxies, force_fetch,
                                   session, executors, mpc, current_time,
                                   last_fetch_time, last_export_time, scans,
                                   last_export, export_count, forced_exports,
                                   cancel>>
               ELSE /\ wpc' = [w \in Workers |-> "idle"]
                    /\ UNCHANGED wheld
                    /\ LoopTop(st)
  /\ UNCHANGED <<config_vars, now, alone_vars>>

\* a source of a fetch inside the loop answers; after the last one the pass
\* goes on to the requeue scan
LoopFetchSource ==
  /\ mpc = "loop_fetch"
  /\ \E outcome \in ManagerOutcomes :
       LET st == FetchOne(CurSt, outcome, now)
       IN /\ UNCHANGED fetch_ghosts
          /\ IF src_i < Len(proxy_sources)
               THEN /\ SetRegistry(st)
                    /\ src_i' = src_i + 1
                    /\ UNCHANGED <<verified_proxies, force_fetch, session,
                                   executors, mpc, current_time, last_fetch_time,
                                   last_export_time, scans, last_export,
                                   export_count, forced_exports, cancel>>
               ELSE LoopTail(st, current_time, current_time, FALSE)
  /\ UNCHANGED <<config_vars, worker_vars, now, alone_vars>>

\* asyncio.sleep returns: the next pass of the loop
SleepDone ==
  /\ mpc = "sleep"
  /\ scans <= MaxIter
  /\ LoopTop(CurSt)
  /\ UNCHANGED <<fetch_ghosts, config_vars, worker_vars, now, alone_vars>>

\* single run: proxy_test_queue.join() returns, final export, break, one
\* None per worker, then gather
JoinDone ==
  /\ mpc = "join"
  /\ unfinished_tasks = 0
  /\ forced_exports' = forced_exports + 1
  /\ IF disk = "writable"
     THEN /\ last_export' = export_list(proxies, verified_proxies)
          /\ export_count' = export_count + 1
     ELSE UNCHANGED <<last_export, export_count>>
  /\ IF disk = "uncreatable"
     THEN /\ mpc' = "cleanup"
          /\ cancel' = "error"
          /\ UNCHANGED <<proxy_test_queue, unfinished_tasks>>
     ELSE /\ proxy_test_queue' = proxy_test_queue \o Sentinels
          /\ unfinished_tasks' = unfinished_tasks + proxy_test_workers
          /\ mpc' = "gather"
          /\ UNCHANGED cancel
  /\ UNCHANGED <<proxies, addr_order, hist, post_count, fetch_ghosts, config_vars,
                 worker_vars, now, alone_vars, verified_proxies, force_fetch, session,
                 executors, src_i, current_time, last_fetch_time,
                 last_export_time, scans>>

\* gather returns when every worker has returned; run goes on to cleanup and
\* waits for session.close()
GatherDone ==
  /\ mpc = "gather"
  /\ \A w \in Workers : wpc[w] = "exited"
  /\ mpc' = "cleanup"
  /\ UNCHANGED <<registry_vars, config_vars, worker_vars, now, alone_vars,
                 verified_proxies, force_fetch, session, executors, src_i,
                 current_time, last_fetch_time, last_export_time, scans,
                 last_export, export_count, forced_exports, cancel>>

\* ------------------------------------------------------------------------
\* The workers: test_proxy_worker
\* ------------------------------------------------------------------------
\* proxy_test_queue.get() and what follows up to the next suspension point:
\* wait on an empty queue, return on None, else start the probe
WorkerNext(w, q) ==
  IF q = <<>>
  THEN /\ wpc' = [wpc EXCEPT ![w] = "idle"]
       /\ wheld' = [wheld EXCEPT ![w] = Sentinel]
       /\ proxy_test_queue' = q
  ELSE IF Head(q) = Sentinel
  THEN /\ wpc' = [wpc EXCEPT ![w] = "exited"]
       /\ wheld' = [wheld EXCEPT ![w] = Sentinel]
       /\ proxy_test_queue' = Tail(q)
  ELSE /\ wpc' = [wpc EXCEPT ![w] = "probing"]
       /\ wheld' = [wheld EXCEPT ![w] = Head(q)]
       /\ proxy_test_queue' = Tail(q)

\* a worker waiting in get() is woken by an item
WorkerGet(w) ==
  /\ wpc[w] = "idle"
  /\ proxy_test_queue # <<>>
  /\ WorkerNext(w, proxy_test_queue)
  /\ UNCHANGED <<proxies, addr_order, unfinished_tasks, hist, post_count,
                 fetch_ghosts, config_vars, main_vars, now, alone_vars>>

\* admission that asks for an earlier success of the same record
admit_second_success(verified, p, test_result) ==
  IF test_result.is_usable /\ p.reliability > 0
  THEN verified \cup {proxy_address(p.host, p.port)}
  ELSE verified

\* the verified set after the worker handled test_result for record p: the
\* validation mode and the number of rounds are not consulted
admit(verified, p, test_result) ==
  IF test_result.is_usable
  THEN verified \cup {proxy_address(p.host, p.port)}
  ELSE verified

\* the record after the worker's try block for test_result at time t; on the
\* failure branch update_from_test_result may raise, and then
\* post_test_processing is never reached
apply_verdict(p, test_result, t) ==
  IF ~test_result.is_usable /\ update_raises(test_result)
  THEN update_from_test_result(p, test_result)
  ELSE post_test_processing(update_from_test_result(p, test_result),
                            test_result.is_usable, test_result, t)

\* the probe of worker w answers: the verdict is applied, task_done, and the
\* worker takes the next item if there is one
ProbeDone(w) ==
  /\ wpc[w] = "probing"
  /\ \E resp \in ManagerResponses :
       LET addr == wheld[w]
           p == proxies[addr]
           test_result == test_proxy(resp)
           raised == ~test_result.is_usable /\ update_raises(test_result)
       IN /\ proxies' = [proxies EXCEPT ![addr] = apply_verdict(p, test_result, now)]
          /\ verified_proxies' = admit(verified_proxies, p, test_result)
          /\ hist' = [hist EXCEPT ![addr] = Append(@, test_result.is_usable)]
          /\ post_count' = [post_count EXCEPT ![addr] = IF raised THEN @ ELSE @ + 1]
  /\ unfinished_tasks' = unfinished_tasks - 1
  /\ WorkerNext(w, proxy_test_queue)
  /\ UNCHANGED <<addr_order, fetch_ghosts, config_vars, now, alone_vars,
                 force_fetch, session,
                 executors, mpc, src_i, current_time, last_fetch_time,
                 last_export_time, scans, last_export, export_count,
                 forced_exports, cancel>>

\* ------------------------------------------------------------------------
\* The stop signal and the end of run
\* ------------------------------------------------------------------------
\* the tasks in ws receive CancelledError at their suspension point: a worker
\* in get() ends, a worker in a probe abandons it; `except Exception` does
\* not catch CancelledError, the finally clause calls task_done.
CancelledPc(ws) ==
  [w \in Workers |-> IF w \in ws /\ wpc[w] \in {"idle", "probing"}
                     THEN "cancelled" ELSE wpc[w]]

Killed(ws) == {w \in ws : wpc[w] = "probing"}

InLoop == mpc \in {"loop_fetch", "join", "sleep", "gather"}

\* Ctrl+C while run is in the scanning loop.  How it surfaces depends on the
\* interpreter and on what the main thread is executing:
\*   "caught"         KeyboardInterrupt is raised inside run's try block and
\*                    caught there: forced export, then cleanup
\*   "main_cancelled" asyncio.run cancels the main task: CancelledError passes
\*                    both except clauses, cleanup runs in the finally clause
\*   "all_cancelled"  KeyboardInterrupt leaves the event loop and asyncio.run
\*                    cancels every task at once
Cancel(how) ==
  /\ cancel = "none"
  /\ InLoop
  /\ cancel' = how
  /\ mpc' = "cleanup"
  /\ LET ws == IF how = "all_cancelled" \/ (how = "main_cancelled" /\ mpc = "gather")
               THEN Workers ELSE {}
     IN /\ wpc' = CancelledPc(ws)
        /\ unfinished_tasks' = unfinished_tasks - Cardinality(Killed(ws))
  /\ forced_exports' = forced_exports + (IF how = "caught" THEN 1 ELSE 0)
  /\ IF how = "caught" /\ disk = "writable"
     THEN /\ last_export' = export_list(proxies, verified_proxies)
          /\ export_count' = export_count + 1
     ELSE UNCHANGED <<last_export, export_count>>
  /\ UNCHANGED <<proxies, addr_order, proxy_test_queue, hist, post_count,
                 fetch_ghosts, config_vars, wheld, now, alone_vars, verified_proxies,
                 force_fetch, session, executors, src_i, current_time,
                 last_fetch_time, last_export_time, scans>>

\* session.close() returns, the executors are shut down, run returns and
\* asyncio.run cancels the tasks that are still pending
CleanupDone ==
  /\ mpc = "cleanup"
  /\ session' = "closed"
  /\ executors' = "shutdown"
  /\ mpc' = "returned"
  /\ wpc' = CancelledPc(Workers)
  /\ unfinished_tasks' = unfinished_tasks - Cardinality(Killed(Workers))
  /\ UNCHANGED <<proxies, addr_order, proxy_test_queue, hist, post_count,
                 fetch_ghosts, config_vars, wheld, now, alone_vars, verified_proxies,
                 force_fetch, src_i, current_time, last_fetch_time,
                 last_export_time, scans, last_export, export_count,
                 forced_exports, cancel>>

\* the clock advances
Tick ==
  /\ now < StartTime + MaxTicks
  /\ mpc # "returned"
  /\ now' = now + 1
  /\ UNCHANGED <<registry_vars, config_vars, main_vars, worker_vars, alone_vars>>

Next ==
  \/ Initialize
  \/ InitFetchSource
  \/ LoopFetchSource
  \/ SleepDone
  \/ JoinDone
  \/ GatherDone
  \/ CleanupDone
  \/ \E how \in {"caught", "main_cancelled", "all_cancelled"} : Cancel(how)
  \/ \E w \in Workers : WorkerGet(w)
  \/ \E w \in Workers : ProbeDone(w)
  \/ Tick

Spec == Init /\ [][Next]_vars

SpecAll == InitAll /\ [][Next]_vars

SpecAny == InitAny /\ [][Next]_vars

\* the scanner started with --connection-limit 1 --proxy-test-workers 2
InitPool == InitConfig("majority", 2, 1)

SpecPool == InitPool /\ [][Next]_vars

\* the scanner on an export directory that cannot be written or created
FailingDiskInit == InitOn("majority", 1, 1, {"unwritable", "uncreatable"})

SpecFailingDisk == FailingDiskInit /\ [][Next]_vars

\* ------------------------------------------------------------------------
\* A single run that no stop signal interrupts.  The event loop runs every
\* task that is ready, every request of a fetch and every probe ends (by an
\* answer or by its timeout) and session.close() returns: weak fairness of
\* each step of the main task and of the workers.
\* ------------------------------------------------------------------------
SingleRunInit == Init /\ single_run

SingleRunNext ==
  \/ Initialize
  \/ InitFetchSource
  \/ LoopFetchSource
  \/ JoinDone
  \/ GatherDone
  \/ CleanupDone
  \/ \E w \in Workers : WorkerGet(w)
  \/ \E w \in Workers : ProbeDone(w)
  \/ Tick

SingleRunFairness ==
  /\ WF_vars(Initialize)
  /\ WF_vars(InitFetchSource)
  /\ WF_vars(LoopFetchSource)
  /\ WF_vars(JoinDone)
  /\ WF_vars(GatherDone)
  /\ WF_vars(CleanupDone)
  /\ WF_vars(\E w \in Workers : WorkerGet(w))
  /\ WF_vars(\E w \in Workers : ProbeDone(w))

SpecSingleRun == SingleRunInit /\ [][SingleRunNext]_vars /\ SingleRunFairness

\* ------------------------------------------------------------------------
\* The continuous scan that no stop signal interrupts
\* ------------------------------------------------------------------------
ContinuousInit == Init /\ ~single_run

ContinuousNext ==
  \/ Initialize
  \/ InitFetchSource
  \/ LoopFetchSource
  \/ SleepDone
  \/ \E w \in Workers : WorkerGet(w)
  \/ \E w \in Workers : ProbeDone(w)
  \/ Tick

SpecContinuous == ContinuousInit /\ [][ContinuousNext]_vars

\* the continuous scan started with --force-fetch
ForceFetchInit == ContinuousInit /\ force_fetch

SpecForceFetch == ForceFetchInit /\ [][ContinuousNext]_vars

\* ------------------------------------------------------------------------
\* fetch_proxy_lists alone: any sequence of fetch cycles
\* ------------------------------------------------------------------------
PortTexts == {"80", "080", "81"}

FetchLines ==
  {Line(kind, host, port_text) :
     kind \in {"plain", "td"}, host \in {Host1, Host2}, port_text \in PortTexts}
  \cup {Line("junk", Host1, "80")}

\* a source fails, or returns up to two lines
FetchOutcomes ==
  {Failed(error) : error \in FetchErrors}
  \cup {Answered(<<>>)}
  \cup {Answered(<<l>>) : l \in FetchLines}
  \cup {Answered(<<l1, l2>>) : l1 \in FetchLines, l2 \in FetchLines}

\* the session is open, no worker runs
FetchCycleInit ==
  /\ proxy_test_workers = 1
  /\ connection_limit = 1
  /\ disk = "writable"
  /\ FormatterIdle
  /\ UpgradeIdle
  /\ fetch_log = <<>>
  /\ offered = {}
  /\ ExportIdle
  /\ ParseIdle
  /\ proxies = <<>>
  /\ addr_order = <<>>
  /\ verified_proxies = {}
  /\ proxy_test_queue = <<>>
  /\ unfinished_tasks = 0
  /\ session = "open"
  /\ executors = "up"
  /\ mpc = "init_fetch"
  /\ src_i = 1
  /\ current_time = 0
  /\ last_fetch_time = 0
  /\ last_export_time = 0
  /\ wpc = [w \in Workers |-> "unstarted"]
  /\ wheld = [w \in Workers |-> Sentinel]
  /\ now = StartTime
  /\ scans = 0
  /\ last_export = {}
  /\ export_count = 0
  /\ forced_exports = 0
  /\ hist = <<>>
  /\ post_count = <<>>
  /\ seen_again = FALSE
  /\ cancel = "none"
  /\ force_fetch = TRUE
  /\ single_run = FALSE
  /\ validation_mode = "majority"
  /\ t_resp = TesterIdle.t_resp
  /\ t_result = TesterIdle.t_result

\* one source of a fetch cycle answers; after the last source the next cycle
\* starts with the first one
FetchCycleSource ==
  /\ \E outcome \in FetchOutcomes :
       /\ SetRegistry(FetchOne(CurSt, outcome, now))
       /\ seen_again' = (seen_again \/ Repeats(CurSt, outcome))
       /\ fetch_log' =
            LET entry == [ok |-> outcome.ok,
                          new |-> Cardinality(DOMAIN FetchOne(CurSt, outcome, now).proxies)
                                  - Cardinality(DOMAIN proxies)]
            IN IF src_i = 1 THEN <<entry>> ELSE Append(fetch_log, entry)
       /\ offered' = offered \cup Offers(outcome)
       /\ src_i' = next_source(src_i, outcome)
  /\ UNCHANGED <<config_vars, worker_vars, now, alone_vars, verified_proxies,
                 force_fetch, session, executors, mpc, current_time,
                 last_fetch_time, last_export_time, scans, last_export,
                 export_count, forced_exports, cancel>>

FetchNext == FetchCycleSource

SpecFetch == FetchCycleInit /\ [][FetchNext]_vars

\* ------------------------------------------------------------------------
\* ProxyTester.test_proxy alone, on every response of Responses
\* ------------------------------------------------------------------------
TesterInit ==
  /\ proxy_test_workers = 1
  /\ connection_limit = 1
  /\ disk = "writable"
  /\ FormatterIdle
  /\ UpgradeIdle
  /\ ExportIdle
  /\ ParseIdle
  /\ ManagerInit
  /\ force_fetch = TRUE
  /\ single_run = TRUE
  /\ validation_mode = "majority"
  /\ t_resp \in Responses
  /\ t_result = Pending

\* test_proxy returns
TestProxy ==
  /\ t_result = Pending
  /\ t_result' = test_proxy(t_resp)
  /\ UNCHANGED <<t_resp, export_vars, parse_vars, formatter_vars, upgrade_vars, registry_vars, config_vars,
                 main_vars, worker_vars, now>>

\* the next probe meets another response
NextProbe ==
  /\ t_result # Pending
  /\ t_resp' \in Responses
  /\ t_result' = Pending
  /\ UNCHANGED <<export_vars, parse_vars, formatter_vars, upgrade_vars, registry_vars, config_vars, main_vars,
                 worker_vars, now>>

TesterNext == TestProxy \/ NextProbe

SpecTester == TesterInit /\ [][TesterNext]_vars

\* ------------------------------------------------------------------------
\* OptimizerIntegration.post_test_processing alone, on two records
\* ------------------------------------------------------------------------
OptimizerInit ==
  /\ proxy_test_workers = 1
  /\ connection_limit = 1
  /\ disk = "writable"
  /\ FormatterIdle
  /\ UpgradeIdle
  /\ fetch_log = <<>>
  /\ offered = {}
  /\ ExportIdle
  /\ ParseIdle
  /\ proxies = (Addr1 :> ProxyInfo(Host1, 80)) @@ (Addr2 :> ProxyInfo(Host2, 80))
  /\ addr_order = <<Addr1, Addr2>>
  /\ verified_proxies = {}
  /\ proxy_test_queue = <<>>
  /\ unfinished_tasks = 0
  /\ session = "none"
  /\ executors = "none"
  /\ mpc = "start"
  /\ src_i = 0
  /\ current_time = 0
  /\ last_fetch_time = 0
  /\ last_export_time = 0
  /\ wpc = [w \in Workers |-> "unstarted"]
  /\ wheld = [w \in Workers |-> Sentinel]
  /\ now = StartTime
  /\ scans = 0
  /\ last_export = {}
  /\ export_count = 0
  /\ forced_exports = 0
  /\ hist = (Addr1 :> <<>>) @@ (Addr2 :> <<>>)
  /\ post_count = (Addr1 :> 0) @@ (Addr2 :> 0)
  /\ seen_again = FALSE
  /\ cancel = "none"
  /\ force_fetch = TRUE
  /\ single_run = TRUE
  /\ validation_mode = "majority"
  /\ t_resp = TesterIdle.t_resp
  /\ t_result = TesterIdle.t_result

\* an elite proxy whose headers give another client address away
OkLeaky ==
  [OkElite EXCEPT !.json.client_ip_from_headers = "2.2.2.2"]

OptimizerResponses == ManagerResponses \cup {OkLeaky}

\* UnifiedScanner.initialize_proxies: the records of the registry it keeps
\* for the DorkEngine
dork_proxies(px) ==
  {a \in DOMAIN px : px[a].is_usable /\ px[a].security_level # "low"}

\* post_test_processing(proxy_info, test_result.get("is_usable"), test_result, ...)
\* for the result of a probe; it raises, leaving the first assignments of
\* update_from_test_result behind, when that update raises
PostTest(addr) ==
  /\ \E resp \in OptimizerResponses :
       LET test_result == test_proxy(resp)
       IN proxies' = [proxies EXCEPT ![addr] =
            IF update_raises(test_result)
            THEN update_from_test_result(@, test_result)
            ELSE post_test_processing(@, test_result.is_usable, test_result, now)]
  /\ UNCHANGED <<addr_order, proxy_test_queue, unfinished_tasks, hist, post_count,
                 fetch_ghosts, config_vars, main_vars, worker_vars, now, alone_vars>>

OptimizerNext == \E addr \in {Addr1, Addr2} : PostTest(addr)

SpecOptimizer == OptimizerInit /\ [][OptimizerNext]_vars

\* ------------------------------------------------------------------------
\* export_results alone, one file operation at a time.  The function has no
\* suspension point, but the export directory is shared with the readers of
\* the export files, which run between any two file operations.
\* ------------------------------------------------------------------------
\* an address of the verified set that the registry does not hold
Addr3 == proxy_address(Host2, 81)

\* the latencies of the records exported by the model, in ascending order
ExportLatencies == <<100, 500>>

ExportRegistries ==
  {(Addr1 :> [ProxyInfo(Host1, 80) EXCEPT !.is_usable = u1, !.latency_ms = l1])
   @@ (Addr2 :> [ProxyInfo(Host2, 80) EXCEPT !.is_usable = u2, !.latency_ms = l2]) :
     u1 \in BOOLEAN, u2 \in BOOLEAN,
     l1 \in {ExportLatencies[1], ExportLatencies[2]},
     l2 \in {ExportLatencies[1], ExportLatencies[2]}}

\* the orders in which the list comprehension over the set can visit S
Orders(S) ==
  {q \in [1..Cardinality(S) -> S] : \A i, j \in 1..Cardinality(S) : i # j => q[i] # q[j]}

WithLatency(px, info, l) ==
  LET keep(a) == px[a].latency_ms = l IN SelectSeq(info, keep)

\* sorted(proxies_to_export_info, key=latency_ms): the sort is stable
sorted_by_latency(px, info) ==
  WithLatency(px, info, ExportLatencies[1]) \o WithLatency(px, info, ExportLatencies[2])

\* the lines of the complete text file and the rows of the complete CSV file
TxtLines == sorted_by_latency(proxies, e_info)

CsvRows == <<"header">> \o e_info

ExportInit ==
  /\ proxy_test_workers = 1
  /\ connection_limit = 1
  /\ disk = "writable"
  /\ FormatterIdle
  /\ UpgradeIdle
  /\ fetch_log = <<>>
  /\ offered = {}
  /\ ParseIdle
  /\ proxies \in ExportRegistries
  /\ addr_order = <<Addr1, Addr2>>
  /\ verified_proxies \in SUBSET {Addr1, Addr2, Addr3}
  /\ proxy_test_queue = <<>>
  /\ unfinished_tasks = 0
  /\ session = "open"
  /\ executors = "up"
  /\ mpc = "sleep"
  /\ src_i = 0
  /\ current_time = StartTime
  /\ last_fetch_time = StartTime
  /\ last_export_time = 0
  /\ wpc = [w \in Workers |-> "idle"]
  /\ wheld = [w \in Workers |-> Sentinel]
  /\ now = StartTime
  /\ scans = 1
  /\ last_export = {}
  /\ export_count = 0
  /\ forced_exports = 0
  /\ hist = (Addr1 :> <<>>) @@ (Addr2 :> <<>>)
  /\ post_count = (Addr1 :> 0) @@ (Addr2 :> 0)
  /\ seen_again = FALSE
  /\ cancel = "none"
  /\ force_fetch = FALSE
  /\ single_run = FALSE
  /\ validation_mode = "majority"
  /\ t_resp = TesterIdle.t_resp
  /\ t_result = TesterIdle.t_result
  /\ epc = "call"
  /\ e_force \in BOOLEAN
  /\ e_info = <<>>
  /\ e_written = 0
  /\ txt_file = None
  /\ csv_file = None
  /\ verified_order \in Orders(verified_proxies)
  /\ e_lists = <<>>

export_frame ==
  <<registry_vars, config_vars, main_vars, worker_vars, now, tester_vars, parse_vars,
    formatter_vars, upgrade_vars, verified_order>>

\* the list comprehension over the set S, whose iteration order is order
iterate(order, S) ==
  LET visited(a) == a \in S IN SelectSeq(order, visited)

\* the call up to open(): the list, the early return, os.makedirs (outside
\* the try block: its OSError leaves export_results)
ExportBegin ==
  /\ epc = "call"
  /\ LET info == export_list(proxies, verified_proxies)
     IN IF info = {} /\ ~e_force
        THEN /\ epc' = "returned"
             /\ e_lists' = Append(e_lists, <<>>)
             /\ UNCHANGED e_info
        ELSE \E made \in BOOLEAN :
               IF made
               THEN /\ epc' = "open_txt"
                    /\ e_info' = iterate(verified_order, info)
                    /\ e_lists' = Append(e_lists, sorted_by_latency(proxies, e_info'))
               ELSE /\ epc' = "raised"
                    /\ UNCHANGED <<e_info, e_lists>>
  /\ UNCHANGED <<e_force, e_written, txt_file, csv_file, export_frame>>

\* open(txt_filename, 'w'): the file exists, empty, at its final path; an
\* IOError is caught and export_results returns
OpenTxt ==
  /\ epc = "open_txt"
  /\ \E ok \in BOOLEAN :
       IF ok
       THEN /\ txt_file' = <<>>
            /\ epc' = "write_txt"
       ELSE /\ epc' = "returned"
            /\ UNCHANGED txt_file
  /\ e_written' = 0
  /\ UNCHANGED <<e_force, e_info, csv_file, e_lists, export_frame>>

\* f_txt.write of one line: the line stays in the buffer, or the buffer is
\* written to the file, or the write fails
WriteTxt ==
  /\ epc = "write_txt"
  /\ e_written < Len(TxtLines)
  /\ \E outcome \in {"buffered", "flushed", "error"} :
       /\ epc' = IF outcome = "error" THEN "returned" ELSE "write_txt"
       /\ e_written' = IF outcome = "error" THEN e_written ELSE e_written + 1
       /\ txt_file' = IF outcome = "flushed"
                      THEN SubSeq(TxtLines, 1, e_written + 1) ELSE txt_file
  /\ UNCHANGED <<e_force, e_info, csv_file, e_lists, export_frame>>

\* the end of the with block: the buffer is written and the file closed
CloseTxt ==
  /\ epc = "write_txt"
  /\ e_written = Len(TxtLines)
  /\ \E ok \in BOOLEAN :
       IF ok
       THEN /\ txt_file' = TxtLines
            /\ epc' = IF e_info # <<>> THEN "open_csv" ELSE "returned"
       ELSE /\ epc' = "returned"
            /\ UNCHANGED txt_file
  /\ e_written' = 0
  /\ UNCHANGED <<e_force, e_info, csv_file, e_lists, export_frame>>

OpenCsv ==
  /\ epc = "open_csv"
  /\ \E ok \in BOOLEAN :
       IF ok
       THEN /\ csv_file' = <<>>
            /\ epc' = "write_csv"
       ELSE /\ epc' = "returned"
            /\ UNCHANGED csv_file
  /\ UNCHANGED <<e_force, e_info, e_written, txt_file, e_lists, export_frame>>

\* writer.writeheader() and writer.writerow(row)
WriteCsv ==
  /\ epc = "write_csv"
  /\ e_written < Len(CsvRows)
  /\ \E outcome \in {"buffered", "flushed", "error"} :
       /\ epc' = IF outcome = "error" THEN "returned" ELSE "write_csv"
       /\ e_written' = IF outcome = "error" THEN e_written ELSE e_written + 1
       /\ csv_file' = IF outcome = "flushed"
                      THEN SubSeq(CsvRows, 1, e_written + 1) ELSE csv_file
  /\ UNCHANGED <<e_force, e_info, txt_file, e_lists, export_frame>>

CloseCsv ==
  /\ epc = "write_csv"
  /\ e_written = Len(CsvRows)
  /\ \E ok \in BOOLEAN :
       /\ csv_file' = IF ok THEN CsvRows ELSE csv_file
  /\ epc' = "returned"
  /\ UNCHANGED <<e_force, e_info, e_written, txt_file, e_lists, export_frame>>

\* export_results is called again with nothing changed in between.  The file
\* names carry the second of the call: the call opens the files of the
\* previous one when it falls into the same second, new files otherwise.
ExportAgain ==
  /\ epc \in {"returned", "raised"}
  /\ Len(e_lists) < MaxExports
  /\ epc' = "call"
  /\ e_force' \in BOOLEAN
  /\ e_info' = <<>>
  /\ e_written' = 0
  /\ \E same_second \in BOOLEAN :
       IF same_second
       THEN UNCHANGED <<txt_file, csv_file>>
       ELSE /\ txt_file' = None
            /\ csv_file' = None
  /\ UNCHANGED <<e_lists, export_frame>>

ExportNext ==
  \/ ExportBegin
  \/ OpenTxt
  \/ WriteTxt
  \/ CloseTxt
  \/ OpenCsv
  \/ WriteCsv
  \/ CloseCsv
  \/ ExportAgain

SpecExport == ExportInit /\ [][ExportNext]_vars

\* ------------------------------------------------------------------------
\* ViewbotFormatter alone: categorization ticks, each of which hands every
\* address to categorize_proxy at most once, and the two exports between
\* the ticks
\* ------------------------------------------------------------------------
FormatterInit ==
  /\ proxy_test_workers = 1
  /\ connection_limit = 1
  /\ disk = "writable"
  /\ ManagerInit
  /\ force_fetch = TRUE
  /\ single_run = TRUE
  /\ validation_mode = "majority"
  /\ t_resp = TesterIdle.t_resp
  /\ t_result = TesterIdle.t_result
  /\ ExportIdle
  /\ ParseIdle
  /\ formatter = FormatterNew
  /\ cat = [running |-> TRUE, seen |-> [a \in CatAddrs |-> <<>>], now |-> {}]
  /\ vb_out = <<>>
  /\ sup_out = <<>>
  /\ UpgradeIdle

formatter_frame ==
  <<registry_vars, config_vars, main_vars, worker_vars, now, tester_vars,
    export_vars, parse_vars, upgrade_vars>>

\* the number of the current tick
CatTick == Len(cat.seen[Addr1]) + 1

\* categorize_proxy(proxy) for the proxy at address
Categorize(address) ==
  /\ cat.running
  /\ CatTick <= MaxCatTicks
  /\ address \notin cat.now
  /\ \E reliability \in CatReliabilities[address] :
       formatter' = categorize_proxy(formatter, proxy_dict(address, reliability))
  /\ cat' = [cat EXCEPT !.now = @ \cup {address}]
  /\ vb_out' = <<>>
  /\ sup_out' = <<>>
  /\ UNCHANGED formatter_frame

\* the tick ends
EndTick ==
  /\ cat.running
  /\ CatTick <= MaxCatTicks
  /\ cat' = [cat EXCEPT !.seen = [a \in CatAddrs |-> Append(cat.seen[a], a \in cat.now)],
                        !.now = {}]
  /\ UNCHANGED <<formatter, vb_out, sup_out, formatter_frame>>

\* export_for_viewbot(filename)
ViewbotExport ==
  /\ cat.running
  /\ cat.now = {}
  /\ Len(vb_out) < MaxExports
  /\ vb_out' = Append(vb_out, export_for_viewbot(formatter))
  /\ formatter' = viewbot_marked(formatter)
  /\ UNCHANGED <<cat, sup_out, formatter_frame>>

\* export_for_supreme(filename)
SupremeExport ==
  /\ cat.running
  /\ cat.now = {}
  /\ \E order \in Orders(formatter.persistent_proxies) :
       sup_out' = export_for_supreme(formatter, order)
  /\ UNCHANGED <<formatter, cat, vb_out, formatter_frame>>

FormatterNext ==
  \/ \E address \in CatAddrs : Categorize(address)
  \/ EndTick
  \/ ViewbotExport
  \/ SupremeExport

SpecFormatter == FormatterInit /\ [][FormatterNext]_vars

\* ------------------------------------------------------------------------
\* The two exporters, each called again with nothing changed in between:
\* export_results on its registries, export_for_viewbot on the formatter
\* ------------------------------------------------------------------------
ReexportInit == ExportInit \/ FormatterInit

ReexportNext == ExportNext \/ FormatterNext

SpecReexport == ReexportInit /\ [][ReexportNext]_vars

\* ------------------------------------------------------------------------
\* parse_proxy_list alone, on every content of at most two lines
\* ------------------------------------------------------------------------
ParseContents ==
  {<<>>} \cup {<<l>> : l \in FetchLines}
  \cup {<<l1, l2>> : l1 \in FetchLines, l2 \in FetchLines}

ParseInit ==
  /\ proxy_test_workers = 1
  /\ connection_limit = 1
  /\ disk = "writable"
  /\ FormatterIdle
  /\ UpgradeIdle
  /\ ManagerInit
  /\ force_fetch = TRUE
  /\ single_run = TRUE
  /\ validation_mode = "majority"
  /\ t_resp = TesterIdle.t_resp
  /\ t_result = TesterIdle.t_result
  /\ ExportIdle
  /\ parse_content \in ParseContents
  /\ parse_result = None

\* parse_proxy_list returns
ParseProxyList ==
  /\ parse_result = None
  /\ parse_result' = parse_proxy_list(parse_content)
  /\ UNCHANGED <<parse_content, registry_vars, config_vars, main_vars, worker_vars,
                 now, tester_vars, export_vars, formatter_vars, upgrade_vars>>

\* the next call gets another content
NextContent ==
  /\ parse_result # None
  /\ parse_content' \in ParseContents
  /\ parse_result' = None
  /\ UNCHANGED <<registry_vars, config_vars, main_vars, worker_vars, now,
                 tester_vars, export_vars, formatter_vars, upgrade_vars>>

ParseNext == ParseProxyList \/ NextContent

SpecParse == ParseInit /\ [][ParseNext]_vars

\* ------------------------------------------------------------------------
\* Properties
\* ------------------------------------------------------------------------
Last(h) == h[Len(h)]

Count(h, b) == Cardinality({i \in 1..Len(h) : h[i] = b})

\* C1: every address of the verified set is a key of the registry, and the
\* most recent test applied to its record was a success.
C1_VerifiedWereUsable ==
  \A a \in verified_proxies :
    /\ a \in DOMAIN proxies
    /\ hist[a] # <<>>
    /\ Last(hist[a])

\* C2: a single run over more candidates than workers that came to its end
\* has applied exactly one verdict to every candidate.
C2_OneVerdictEach ==
  (/\ single_run
   /\ cancel = "none"
   /\ mpc = "returned"
   /\ Cardinality(DOMAIN proxies) > proxy_test_workers)
  => \A a \in DOMAIN proxies : Len(hist[a]) = 1

\* C3: in majority mode, when the verdict of the last of the
\* validation_rounds rounds of a proxy is applied, the proxy is in the
\* verified set if and only if its successes outnumber its failures.
C3_MajorityAdmission ==
  [][\A a \in DOMAIN hist :
       (/\ validation_mode = "majority"
        /\ Len(hist[a]) = validation_rounds - 1
        /\ Len(hist'[a]) = validation_rounds)
       => (a \in verified_proxies' <=> Count(hist'[a], TRUE) > Count(hist'[a], FALSE))]_vars

\* C4: in all mode, a proxy with a failed round among its validation_rounds
\* rounds is not in the verified set.
C4_AllRejectsFailure ==
  \A a \in DOMAIN hist :
    (/\ validation_mode = "all"
     /\ Len(hist[a]) <= validation_rounds
     /\ Count(hist[a], FALSE) > 0)
    => a \notin verified_proxies

\* C5: in any mode, the step that applies a successful round of a proxy
\* leaves the proxy in the verified set, whatever its other rounds were.
C5_AnySuccessAdmits ==
  [][\A a \in DOMAIN hist :
       (/\ validation_mode = "any"
        /\ Len(hist'[a]) = Len(hist[a]) + 1
        /\ Last(hist'[a]))
       => a \in verified_proxies']_vars

\* a proxy admitted in any mode by the third round after two failed rounds
C5_Witness ==
  /\ validation_mode = "any"
  /\ \E a \in DOMAIN hist : hist[a] = <<FALSE, FALSE, TRUE>> /\ a \in verified_proxies

\* C6: no two records of the registry share the identity (host, port, protocol).
C6_UniqueIdentity ==
  \A a \in DOMAIN proxies : \A b \in DOMAIN proxies :
    a # b => Identity(proxies[a]) # Identity(proxies[b])

\* sources repeated pairs, and the registry holds both ports of one host
C6_Witness ==
  /\ seen_again
  /\ proxy_address(Host1, 80) \in DOMAIN proxies
  /\ proxy_address(Host1, 81) \in DOMAIN proxies
  /\ proxy_address(Host2, 80) \in DOMAIN proxies

\* C7: the reliability of every record is within 0..100.
C7_ReliabilityBounds ==
  \A a \in DOMAIN proxies :
    proxies[a].reliability >= 0 /\ proxies[a].reliability <= 100

\* one record held at 100 by a success, another held at 0 by a failure
C7_Witness ==
  /\ proxies[Addr1].reliability = 100
  /\ proxies[Addr1].is_usable
  /\ proxies[Addr2].reliability = 0
  /\ proxies[Addr2].speed_rating = "slow"

\* the response reports a connecting IP and a header-exposed IP that differ
Leaky(resp) ==
  /\ resp.transport = "ok"
  /\ resp.json.kind = "object"
  /\ StrTruthy(resp.json.connecting_ip)
  /\ StrTruthy(resp.json.client_ip_from_headers)
  /\ resp.json.connecting_ip # resp.json.client_ip_from_headers

\* C8: the result of a probe whose response reports two differing IPs never
\* has the security level "secure as hecc".
C8_LeakNeverSecure ==
  (t_result # Pending /\ Leaky(t_resp)) => t_result.security_level # "secure as hecc"

\* an endpoint answering elite on a leaking proxy, classified as leaked
C8_Witness ==
  /\ Leaky(t_resp)
  /\ t_resp.json.status = "success"
  /\ t_resp.json.anonymity_level = "elite"
  /\ t_result.is_usable
  /\ t_result.security_level = "low (IP leaked)"

\* C9: a requeue scan or an export of the scanning loop never runs on a
\* registry that holds a record with the usability of a verdict applied and
\* its reliability and last_tested not applied.
C9_NoPartialVerdictObserved ==
  [][(/\ cancel' = "none"
      /\ (scans' # scans \/ forced_exports' # forced_exports \/ export_count' # export_count))
     => \A a \in DOMAIN hist : Len(hist[a]) = post_count[a]]_vars

\* C10: a worker that ended by the stop signal holds no dequeued record: the
\* record was fully processed or put back on the queue.
C10_NoDroppedRecord ==
  \A w \in Workers : wpc[w] = "cancelled" => wheld[w] = Sentinel

\* C11: when run has returned after a stop signal that arrived while it was
\* in the scanning loop, a forced export has been performed, the session is
\* closed and both executors are shut down.
C11_CancelExportsAndCloses ==
  (mpc = "returned" /\ cancel # "none")
  => (forced_exports >= 1 /\ session = "closed" /\ executors = "shutdown")

\* start_scanning_loop has returned: run is in cleanup or past it
LoopReturned == mpc \in {"cleanup", "returned"}

\* C12: a single run eventually leaves start_scanning_loop; its forced export
\* is made when no record is queued or in flight, it is the only forced
\* export, and every worker has exited when the loop has returned.
C12_SingleRunStops ==
  /\ <>LoopReturned
  /\ [](LoopReturned => (forced_exports = 1 /\ \A w \in Workers : wpc[w] = "exited"))
  /\ [][forced_exports' # forced_exports
        => (/\ unfinished_tasks = 0
            /\ proxy_test_queue = <<>>
            /\ \A w \in Workers : wpc[w] # "probing")]_vars

\* a single run that tested a record twice and admitted it has returned
C12_Witness ==
  /\ single_run
  /\ mpc = "returned"
  /\ forced_exports = 1
  /\ \A w \in Workers : wpc[w] = "exited"
  /\ \E a \in DOMAIN hist : Len(hist[a]) = 2 /\ Last(hist[a])

\* C13: whenever an export file exists at its final path, it holds the whole
\* export: a reader never finds a part of it.
C13_NoPartialFile ==
  /\ txt_file # None => txt_file = TxtLines
  /\ csv_file # None => csv_file = CsvRows

\* the number of entries of queue q that are the record at address a
Occ(q, a) == Cardinality({i \in 1..Len(q) : q[i] = a})

\* C14: when a requeue scan puts a record that is usable on the test queue,
\* at least proxy_refresh_min_interval has passed since the record was last
\* tested, by the loop's current_time and by the clock.
C14_UsableRequeuedAfterInterval ==
  [][\A a \in DOMAIN proxies :
       (/\ proxies[a].is_usable
        /\ scans' = scans + 1
        /\ Occ(proxy_test_queue', a) > Occ(proxy_test_queue, a))
       => (/\ current_time' - proxies[a].last_tested >= proxy_refresh_min_interval
           /\ now - proxies[a].last_tested >= proxy_refresh_min_interval)]_vars

\* a record whose last test succeeded has been reset and queued by a scan
C14_Witness ==
  \E a \in DOMAIN proxies :
    /\ hist[a] # <<>>
    /\ Last(hist[a])
    /\ ~proxies[a].is_usable
    /\ Occ(proxy_test_queue, a) >= 1
    /\ proxies[a].last_tested = current_time

\* C15: every pass of the scanning loop ends with a requeue scan, and the
\* scan puts every record that is not usable on the test queue once, whatever
\* its last_tested; a record registered by the fetch of the same pass is on
\* the queue twice.
C15_UnusableRequeuedEveryTick ==
  [][/\ (mpc # "sleep" /\ mpc' = "sleep") => scans' = scans + 1
     /\ scans' = scans + 1
        => (/\ \A a \in DOMAIN proxies :
                 ~proxies[a].is_usable
                 => Occ(proxy_test_queue', a) = Occ(proxy_test_queue, a) + 1
            /\ \A a \in DOMAIN proxies' \ DOMAIN proxies :
                 Occ(proxy_test_queue', a) = 2)]_vars

\* every worker waits on the queue it had emptied, and a record that failed
\* its test is on the queue again before the clock has moved
C15_Witness ==
  /\ now = StartTime
  /\ scans = 2
  /\ \A w \in Workers : wpc[w] = "idle"
  /\ \E a \in DOMAIN proxies :
       /\ hist[a] # <<>>
       /\ ~Last(hist[a])
       /\ Occ(proxy_test_queue, a) = 1

\* the workers that wait for the answer of a probe
InFlight == {w \in Workers : wpc[w] = "probing"}

\* C16: the number of probes in flight never exceeds connection_limit.
C16_ProbesWithinLimit == Cardinality(InFlight) <= connection_limit

\* C17: a record that is usable, whose most recent test succeeded and of
\* which no test is in flight, is in the verified set.
C17_UsableAreVerified ==
  \A a \in DOMAIN proxies :
    (/\ proxies[a].is_usable
     /\ hist[a] # <<>>
     /\ Last(hist[a])
     /\ \A w \in Workers : ~(wpc[w] = "probing" /\ wheld[w] = a))
    => a \in verified_proxies

\* C18: the registry never holds more than max_proxies_to_keep records.
C18_RegistryWithinMaximum == Cardinality(DOMAIN proxies) <= max_proxies_to_keep

\* C19: in every fetch cycle each source is requested in turn whatever the
\* outcomes of the sources before it, a source that failed adds nothing, and
\* every pair that some source returned is registered and is on the test
\* queue once.
C19_SourceFailureIsolated ==
  /\ Len(fetch_log) = IF src_i = 1 /\ fetch_log # <<>>
                      THEN Len(proxy_sources) ELSE src_i - 1
  /\ \A i \in 1..Len(fetch_log) : ~fetch_log[i].ok => fetch_log[i].new = 0
  /\ offered = DOMAIN proxies
  /\ \A a \in DOMAIN proxies : Occ(proxy_test_queue, a) = 1

\* a cycle whose first source failed and whose second source added records
C19_Witness ==
  /\ Len(fetch_log) = 2
  /\ ~fetch_log[1].ok
  /\ fetch_log[2].ok
  /\ fetch_log[2].new = 2
  /\ Cardinality(DOMAIN proxies) >= 3

\* the pair a line of a content holds
PairOf(l) == <<l.host, IntOfText(l.port_text)>>

RECURSIVE PlainPairs(_)
\* the pairs of the lines of a content that match the line pattern, in order
PlainPairs(content) ==
  IF content = <<>> THEN <<>>
  ELSE IF Head(content).kind = "plain"
  THEN <<PairOf(Head(content))>> \o PlainPairs(Tail(content))
  ELSE PlainPairs(Tail(content))

\* C20: when at least one line of the content matched the line pattern, the
\* list parse_proxy_list returns holds the pairs of the matching lines and
\* nothing else: no pair comes from the table cells.
C20_TabularOnlyWithoutPlainMatch ==
  (parse_result # None /\ PlainPairs(parse_content) # <<>>)
  => parse_result = PlainPairs(parse_content)

\* the ticks, finished or current, that categorized the proxy at address a
CatTicksOf(a) ==
  {i \in 1..Len(cat.seen[a]) : cat.seen[a][i]}
  \cup (IF a \in cat.now THEN {CatTick} ELSE {})

\* T is a run of n ticks one after the other
IsRun(T, n) ==
  /\ Cardinality(T) = n
  /\ \A i, j \in T : j - i < n

\* C21: a proxy categorized in exactly 3 ticks, one after the other, is in
\* the persistent set; a proxy categorized in only 2 ticks is not.
C21_PersistentAfterThreeTicks ==
  \A a \in CatAddrs :
    /\ IsRun(CatTicksOf(a), 3) => a \in formatter.persistent_proxies
    /\ Cardinality(CatTicksOf(a)) = 2 => a \notin formatter.persistent_proxies

\* the third tick in a row has categorized the first proxy, the second one
\* has been categorized in two ticks
C21_Witness ==
  /\ IsRun(CatTicksOf(Addr1), 3)
  /\ Addr1 \in formatter.persistent_proxies
  /\ Cardinality(CatTicksOf(Addr2)) = 2
  /\ Addr2 \notin formatter.persistent_proxies

\* C22: persistence counts consecutive appearances only: a proxy categorized
\* in two ticks, absent from the next tick and categorized once more in the
\* tick after it is not in the persistent set.
C22_GapResetsPersistence ==
  \A a \in CatAddrs :
    (\E i \in 1..MaxCatTicks : CatTicksOf(a) = {i, i + 1, i + 3})
    => a \notin formatter.persistent_proxies

\* C23: the fast-track set is exactly the set of the persistent proxies
\* whose reliability at their latest categorization is at least 85.
C23_FastTrackIsReliablePersistent ==
  formatter.fast_track_proxies =
    {a \in formatter.persistent_proxies : formatter.proxy_history[a].reliability >= 85}

\* C24: an export run again with no change to the registry, the verified
\* set or the categorizer state in between exports the same number of
\* proxies in the same order, for export_results and for export_for_viewbot.
C24_ReexportSameList ==
  /\ \A i, j \in 1..Len(e_lists) : e_lists[i] = e_lists[j]
  /\ \A i, j \in 1..Len(vb_out) : vb_out[i] = vb_out[j]

\* export_for_viewbot has run twice and exported dicts of both proxies in
\* another order than it collected them
C24_Witness ==
  /\ Len(vb_out) = 2
  /\ {address_of(vb_out[2][i]) : i \in 1..Len(vb_out[2])} = CatAddrs
  /\ vb_out[2] # matching_proxies(formatter)

\* C25: every proxy export_for_supreme emits is of the reliability tiers
\* platinum or gold and of the anonymity tier elite.
C25_SupremeOnlyTopTiers ==
  \A i \in 1..Len(sup_out) :
    /\ reliability_category(sup_out[i].reliability) \in {"platinum", "gold"}
    /\ stealth_category(sup_out[i].anonymity) = "elite"

\* C27: for a transport failure or a timeout test_proxy returns a result
\* with is_usable false, whose speed rating is "slow" for a timeout and
\* "failed" for every other transport failure.
C27_TransportFailureVerdict ==
  (t_result # Pending /\ t_resp.transport \in {"client_error", "timeout"})
  => /\ ~t_result.is_usable
     /\ t_result.speed_rating =
          IF t_resp.transport = "timeout" THEN "slow" ELSE "failed"

\* a response that deviates from the contract of the verification endpoint:
\* a bad status, a body that is not JSON, JSON that is not an object, or
\* JSON without the status "success"
Deviates(resp) ==
  \/ resp.transport \in {"bad_status", "not_json"}
  \/ /\ resp.transport = "ok"
     /\ resp.json.kind # "object" \/ resp.json.status # "success"

TestApplied(a) ==
  /\ a \in DOMAIN hist
  /\ Len(hist'[a]) = Len(hist[a]) + 1

\* C26: last_tested of a record is written exactly once per dequeue/test
\* cycle, whether the test succeeds, fails or raises, and by nothing else:
\* a step that leaves a record with another last_tested than it had (the 0
\* of its constructor for a new record) applies a test result to it, and a
\* step that applies a test result completes one post_test_processing.
C26_LastTestedOncePerTest ==
  [][\A a \in DOMAIN proxies' :
       /\ proxies'[a].last_tested
            # (IF a \in DOMAIN proxies THEN proxies[a].last_tested
               ELSE ProxyInfo(a[1], a[2]).last_tested)
          => TestApplied(a)
       /\ TestApplied(a) => post_count'[a] = post_count[a] + 1]_vars

\* a pass of the scanning loop in which an export of at least one proxy
\* fails: the periodic export ran without writing a file, or an exception
\* left the loop
ExportFailed ==
  /\ disk # "writable"
  /\ scans' = scans + 1
  /\ export_list(proxies', verified_proxies) # {}
  /\ last_export_time' # last_export_time \/ cancel' = "error"

\* C29: when an export fails with an I/O error, the error does not leave
\* the export, the scanning loop keeps running, and the verified proxies of
\* the failed export stay in the verified set for the next export.
C29_FailedExportIsRetried ==
  [][ExportFailed
     => /\ cancel' # "error"
        /\ mpc' \in {"sleep", "join", "gather"}
        /\ export_list(proxies', verified_proxies) \subseteq verified_proxies']_vars

\* C30: when an exception leaves start_scanning_loop, run attempts a forced
\* export before it releases the resources and returns.
C30_FatalErrorForcesExport ==
  cancel = "error" => forced_exports >= 1

\* C31: no registry record is in the test queue more than once, or in the
\* queue while a worker tests it, or under test by two workers: the fetch
\* path and the requeue scan never enqueue a record that is queued or in
\* flight.
C31_NoRecordQueuedTwice ==
  \A a \in DOMAIN proxies :
    Occ(proxy_test_queue, a)
    + Cardinality({w \in Workers : wpc[w] = "probing" /\ wheld[w] = a}) <= 1

\* C32: in single-run mode the final forced export lists every registry
\* record whose most recent test succeeded, including the records verified
\* before an earlier periodic export of the same run.
C32_FinalExportListsAllVerified ==
  (single_run /\ forced_exports >= 1)
  => \A a \in DOMAIN proxies :
       (hist[a] # <<>> /\ Last(hist[a])) => a \in last_export

\* C33: with force_fetch set, every cycle of the scanning loop fetches the
\* proxy lists: the pass that starts when the sleep returns never goes on
\* to its requeue scan without having requested the sources.
C33_ForceFetchEveryCycle ==
  [][mpc = "sleep" => scans' = scans]_vars

\* C34: initialize_proxies never selects for dorking a proxy whose security
\* level is low, a proxy the tester downgraded because its IP leaked
\* through the headers included.
C34_NoLowSecurityDorkProxy ==
  \A a \in dork_proxies(proxies) :
    proxies[a].security_level \notin {"low", "low (IP leaked)"}

\* the entries of a tier list that belong to the proxy at address
tier_entries(list, address) ==
  Cardinality({i \in 1..Len(list) : address_of(list[i]) = address})

\* the stats of export_specialized_formats:
\* sum(len(c) for c in self.speed_categories.values())
total_proxies(fm) ==
  Len(fm.speed_categories.ultra) + Len(fm.speed_categories.fast)
  + Len(fm.speed_categories.medium) + Len(fm.speed_categories.slow)

\* the proxies categorize_proxy was called for at least once
categorized(fm) == {a \in CatAddrs : fm.persistence_counter[a] > 0}

\* C35: after any sequence of categorize_proxy calls each proxy appears at
\* most once in the speed tiers, at most once in the reliability tiers and
\* at most once in the anonymity tiers, and the reported total_proxies is
\* the number of distinct categorized proxies.
C35_OneTierEntryPerProxy ==
  /\ \A a \in CatAddrs :
       /\ tier_entries(formatter.speed_categories.ultra, a)
          + tier_entries(formatter.speed_categories.fast, a)
          + tier_entries(formatter.speed_categories.medium, a)
          + tier_entries(formatter.speed_categories.slow, a) <= 1
       /\ tier_entries(formatter.reliability_categories.platinum, a)
          + tier_entries(formatter.reliability_categories.gold, a)
          + tier_entries(formatter.reliability_categories.silver, a)
          + tier_entries(formatter.reliability_categories.bronze, a) <= 1
       /\ tier_entries(formatter.stealth_categories.elite, a)
          + tier_entries(formatter.stealth_categories.anonymous, a)
          + tier_entries(formatter.stealth_categories.transparent, a) <= 1
  /\ total_proxies(formatter) = Cardinality(categorized(formatter))

\* OptimizerIntegration.get_fast_track_proxies():
\* self.viewbot_formatter.get_persistent_proxies()
get_fast_track_proxies(fm) == fm.persistent_proxies

\* ViewbotFormatter.is_fast_track_proxy(proxy_address)
is_fast_track_proxy(fm, address) == address \in fm.fast_track_proxies

\* C39: after any sequence of categorizations get_fast_track_proxies returns
\* exactly the proxies for which is_fast_track_proxy is true.
C39_FastTrackListIsFastTrackSet ==
  get_fast_track_proxies(formatter)
    = {a \in CatAddrs : is_fast_track_proxy(formatter, a)}

\* ------------------------------------------------------------------------
\* CustomEndpointManager alone: health updates and selections
\* ------------------------------------------------------------------------
\* the calls of update_endpoint_health of a run of the model
MaxHealthUpdates == 3

EndpointInit ==
  /\ InitOn("majority", 1, 1, {"writable"})
  /\ single_run
  /\ force_fetch

endpoint_frame ==
  <<registry_vars, config_vars, main_vars, worker_vars, now, tester_vars,
    export_vars, parse_vars, formatter_vars, dns_cache, polling>>

\* update_endpoint_health(endpoint, success, response_time)
UpdateHealth(endpoint, success, response_time) ==
  /\ endpoint_manager.updates < MaxHealthUpdates
  /\ endpoint_manager' =
       [endpoint_stats |->
          update_endpoint_health(endpoint_manager.endpoint_stats, endpoint,
                                 success, response_time),
        updates |-> endpoint_manager.updates + 1,
        selected |-> NoSelection]
  /\ UNCHANGED endpoint_frame

\* select_optimal_endpoint(proxy_info) for a proxy of the country
SelectEndpoint(country) ==
  /\ \E endpoint \in select_optimal_endpoint(endpoint_manager.endpoint_stats,
                                             country) :
       endpoint_manager' =
         [endpoint_manager EXCEPT
            !.selected = [country |-> country, endpoint |-> endpoint]]
  /\ UNCHANGED endpoint_frame

EndpointNext ==
  \/ \E endpoint \in Endpoints, success \in BOOLEAN,
        response_time \in ResponseTimes :
       UpdateHealth(endpoint, success, response_time)
  \/ \E country \in Countries : SelectEndpoint(country)

SpecEndpoint == EndpointInit /\ [][EndpointNext]_vars

\* the list of the region of a country, "na" for a country the map does
\* not know
region_list(country) ==
  create_endpoint_selection_map[
    IF lower(country) \in DOMAIN country_to_region
    THEN country_to_region[lower(country)] ELSE "na"]

\* the endpoints of a list that score higher than the endpoint
better_endpoints(list, endpoint) ==
  {i \in 1..Len(list) :
     endpoint_score(endpoint_manager.endpoint_stats[list[i]])
       > endpoint_score(endpoint_manager.endpoint_stats[endpoint])}

\* C36: for a proxy with a country, select_optimal_endpoint returns an
\* endpoint of the list of the proxy's region (the "na" list for an unknown
\* country) with fewer than three endpoints of that list scoring higher
\* under the current statistics; for a proxy without a country it returns
\* one of the two default endpoints.
C36_SelectedAmongTopThree ==
  LET sel == endpoint_manager.selected
  IN sel.endpoint # None =>
       IF sel.country \in {None, ""}
       THEN sel.endpoint
              \in {"http://httpbin.org/ip", "https://api.ipify.org/?format=json"}
       ELSE /\ \E i \in 1..Len(region_list(sel.country)) :
                 region_list(sel.country)[i] = sel.endpoint
            /\ Cardinality(better_endpoints(region_list(sel.country),
                                            sel.endpoint)) < 3

\* an endpoint selected for a proxy of a known country that is neither the
\* best nor the worst of its region's list
C36_Witness ==
  LET sel == endpoint_manager.selected
      stats == endpoint_manager.endpoint_stats
  IN /\ sel.country = "br"
     /\ better_endpoints(region_list("br"), sel.endpoint) # {}
     /\ \E e \in Endpoints :
          /\ \E i \in 1..Len(region_list("br")) : region_list("br")[i] = e
          /\ endpoint_score(stats[e]) < endpoint_score(stats[sel.endpoint])

\* ------------------------------------------------------------------------
\* EnhancedDNSCache alone: two tasks in resolve and the clock
\* ------------------------------------------------------------------------
\* the clock ticks of a run of the model
MaxDnsTicks == 3

DnsInit ==
  /\ InitOn("majority", 1, 1, {"writable"})
  /\ single_run
  /\ force_fetch

dns_frame ==
  <<registry_vars, config_vars, main_vars, worker_vars, tester_vars,
    export_vars, parse_vars, formatter_vars, endpoint_manager, polling>>

\* resolve(hostname) up to its first suspension: the cache is read under
\* the lock; a hit returns, a miss hands gethostbyname to the executor
ResolveBegin(t, hostname) ==
  /\ dns_cache.task[t].pc = "idle"
  /\ dns_cache.lock = {}
  /\ dns_cache' =
       IF cache_hit(dns_cache.cache, hostname, now)
       THEN [dns_cache EXCEPT
               !.task[t] = [pc |-> "returned", hostname |-> hostname,
                            result |-> dns_cache.cache[hostname].ip]]
       ELSE [dns_cache EXCEPT
               !.task[t] = [pc |-> "resolving", hostname |-> hostname,
                            result |-> None],
               !.lock = lock_while_resolving(t)]
  /\ UNCHANGED <<now, dns_frame>>

\* the executor's gethostbyname returns or raises socket.gaierror: the
\* answer is cached under the lock and returned, the error returns None
ResolveEnd(t, found) ==
  /\ dns_cache.task[t].pc = "resolving"
  /\ dns_cache.lock \subseteq {t}
  /\ LET hostname == dns_cache.task[t].hostname
     IN dns_cache' =
          IF found
          THEN [dns_cache EXCEPT
                  !.cache[hostname] =
                     [ip |-> ResolverIp[hostname], timestamp |-> now],
                  !.lock = {},
                  !.task[t].pc = "returned",
                  !.task[t].result = ResolverIp[hostname]]
          ELSE [dns_cache EXCEPT
                  !.lock = {},
                  !.task[t].pc = "returned",
                  !.task[t].result = None]
  /\ UNCHANGED <<now, dns_frame>>

\* the caller goes on with the address
ResolveReturned(t) ==
  /\ dns_cache.task[t].pc = "returned"
  /\ dns_cache' = [dns_cache EXCEPT !.task[t] = DnsTaskIdle]
  /\ UNCHANGED <<now, dns_frame>>

\* the clock advances
DnsTick ==
  /\ now < StartTime + MaxDnsTicks
  /\ now' = now + 1
  /\ UNCHANGED <<dns_cache, dns_frame>>

DnsNext ==
  \/ \E t \in DnsTasks, hostname \in Hostnames : ResolveBegin(t, hostname)
  \/ \E t \in DnsTasks, found \in BOOLEAN : ResolveEnd(t, found)
  \/ \E t \in DnsTasks : ResolveReturned(t)
  \/ DnsTick

SpecDns == DnsInit /\ [][DnsNext]_vars

\* C37: resolve never holds the cache lock while its resolver call is
\* outstanding, so a task resolving a miss never blocks another task's
\* resolve of a cached, unexpired hostname.
C37_LockFreeWhileResolving ==
  \A t \in DnsTasks :
    dns_cache.task[t].pc = "resolving" => dns_cache.lock = {}

\* one task waits for the resolver while the other has been answered from
\* the cache
C37_Witness ==
  \E t, u \in DnsTasks :
    /\ dns_cache.task[t].pc = "resolving"
    /\ dns_cache.task[u].pc = "returned"
    /\ dns_cache.task[u].result # None
    /\ dns_cache.task[u].hostname # dns_cache.task[t].hostname
    /\ cache_hit(dns_cache.cache, dns_cache.task[u].hostname, now)

\* ------------------------------------------------------------------------
\* the polling loops alone: CaptchaSolver.solve against 2captcha and
\* capture_url against Lookyloo
\* ------------------------------------------------------------------------
\* the largest max_retries a CaptchaSolver of the model is built with
MaxRetries == 3

PollingInit ==
  /\ InitOn("majority", 1, 1, {"writable"})
  /\ single_run
  /\ force_fetch

polling_frame ==
  <<registry_vars, config_vars, main_vars, worker_vars, now, tester_vars,
    export_vars, parse_vars, formatter_vars, endpoint_manager, dns_cache>>

\* CaptchaSolver(api_key, max_retries)
SolverNew(api_key, max_retries) ==
  /\ polling.solver.pc = "unbuilt"
  /\ polling' = [polling EXCEPT
                   !.solver.pc = "built",
                   !.solver.api_key = api_key,
                   !.solver.max_retries = max_retries]
  /\ UNCHANGED polling_frame

\* solve(site_key, page_url) up to its loop: without a key it returns None;
\* a submission that is refused or fails raises into the except clause
SolverSubmit(accepted) ==
  /\ polling.solver.pc = "built"
  /\ polling' = [polling EXCEPT
                   !.solver.pc =
                      IF polling.solver.api_key /\ accepted
                         /\ polling.solver.max_retries > 0
                      THEN "polling" ELSE "returned"]
  /\ UNCHANGED polling_frame

\* one pass of the loop of solve: sleep, then the poll
SolverPoll(answer) ==
  /\ polling.solver.pc = "polling"
  /\ polling' = [polling EXCEPT !.solver = solver_poll(@, answer)]
  /\ UNCHANGED polling_frame

\* capture_url(url) up to its loop
CaptureEnqueue ==
  /\ polling.capture.pc = "uncalled"
  /\ polling' = [polling EXCEPT !.capture.pc = "polling"]
  /\ UNCHANGED polling_frame

\* one pass of the loop of capture_url: the status check, then the sleep
CapturePoll(status) ==
  /\ polling.capture.pc = "polling"
  /\ polling' = [polling EXCEPT
                   !.capture = [pc |-> capture_poll(status), status |-> status]]
  /\ UNCHANGED polling_frame

SolverNext ==
  \/ \E api_key \in BOOLEAN, max_retries \in 0..MaxRetries :
       SolverNew(api_key, max_retries)
  \/ \E accepted \in BOOLEAN : SolverSubmit(accepted)
  \/ \E answer \in SolverAnswers : SolverPoll(answer)

CaptureNext ==
  \/ CaptureEnqueue
  \/ \E status \in CaptureStatuses : CapturePoll(status)

PollingNext == SolverNext \/ CaptureNext

\* both functions run on: a loop that can take its next pass takes it
SpecPolling ==
  /\ PollingInit
  /\ [][PollingNext]_vars
  /\ WF_vars(SolverNext)
  /\ WF_vars(CaptureNext)

\* solve polls at most max_retries times
SolverPollsBounded == polling.solver.attempt <= polling.solver.max_retries

\* C38: every polling loop against an external service makes a bounded
\* number of polls and then returns or fails: solve returns after at most
\* max_retries polls, and capture_url leaves its loop.
C38_PollingLoopsEnd ==
  /\ <>(polling.solver.pc = "returned")
  /\ <>(polling.capture.pc \in {"returned", "raised"})

====
